---- MODULE Spec2Model ----
(***************************************************************************)
(* Model of the STDX generic hashtable (stdx_hashtable.h) together with    *)
(* the allocator capability (stdx_allocator.h) and the arena allocator     *)
(* (stdx_arena.h) it is used with.                                         *)
(*                                                                         *)
(* A table is the record of the XHashtable struct.  A slot's key and value *)
(* blocks are represented by their contents; NULL stands for a null block  *)
(* pointer.  Every table operation is an operator that returns the table   *)
(* it leaves behind together with the sequence of allocator calls it made, *)
(* in program order; the actions replay those calls on the allocator.      *)
(***************************************************************************)
EXTENDS Integers, Sequences, FiniteSets, TLC

NULL == 0

INITIAL_CAPACITY == 16

\* LOAD_FACTOR is 0.75 = LoadNum / LoadDen
LoadNum == 3
LoadDen == 4

\* sizes of the structs on an LP64 build
SizeofXHashtable == 64
SizeofXHashEntry == 24

\* the table of the tests: sizeof(char*) keys, sizeof(int) values
KeySize == 8
ValueSize == 4

(***************************************************************************)
(* Bounds of the model.                                                    *)
(***************************************************************************)
\* number of keys the populate loop inserts, each in a bucket of its own
NumFill == 22
\* number of keys that share bucket 0 of a 16-slot table
NumCollide == 3
\* values passed to set for the colliding keys
MaxValue == 2
\* number of calls the client makes on the table outside the populate loop
MaxOps == 5
\* number of calls of a client that sets and removes the colliding keys only
MaxChurn == 6

Values == 1..MaxValue

\* keys 32, 64, 96, ... all hash to bucket 0 of a table of 16 or 32 slots
CollideKeys == {2 * INITIAL_CAPACITY * i : i \in 1..NumCollide}
\* key_i of the populate loop: 3, 4, 5, ... (bucket i + 2 while that is below
\* the capacity)
FillKey(i) == i + 2
\* the value the populate loop stores under key_i (test: value = i)
FillValue(i) == i
FillKeys == {FillKey(i) : i \in 1..NumFill}
Keys == CollideKeys \cup FillKeys

(***************************************************************************)
(* Pointers.  A null pointer to a struct is a record with the field null,  *)
(* which no struct record has.                                             *)
(***************************************************************************)
NullPtr == [null |-> TRUE]

IsNull(p) == "null" \in DOMAIN p

(***************************************************************************)
(* The heap of malloc and free.  A block is named after the pointer field  *)
(* its address is stored in.  live is the set of blocks that were obtained *)
(* and not released; lost counts the blocks whose only pointer was         *)
(* overwritten by the address of a newer block; bad counts the calls of    *)
(* free on a block that is not live (a double or a wild release).          *)
(***************************************************************************)
EmptyHeap == [live |-> {}, lost |-> 0, bad |-> 0]

\* malloc succeeding, its result stored in the field p
HeapMalloc(h, p) ==
  IF p \in h.live
    THEN [h EXCEPT !.lost = @ + 1]
    ELSE [h EXCEPT !.live = @ \cup {p}]

\* free(p); free of a null pointer does nothing
HeapFree(h, p) ==
  IF IsNull(p)
    THEN h
    ELSE IF p \in h.live
           THEN [h EXCEPT !.live = @ \ {p}]
           ELSE [h EXCEPT !.bad = @ + 1]

\* the blocks of an arena: the XArena struct, and the XArenaChunk struct and
\* the buffer of the chunk with the given number
ArenaBlock == [block |-> "arena"]

ChunkBlock(number) == [block |-> "chunk", number |-> number]

DataBlock(number) == [block |-> "data", number |-> number]

\* the blocks of a table: the XHashtable struct, the slot array of a given
\* capacity, and the key and value blocks of a slot of that array
TableBlock == [block |-> "table"]

EntriesBlock(cap) == [block |-> "entries", capacity |-> cap]

KeyBlock(cap, i) == [block |-> "key", capacity |-> cap, slot |-> i]

ValueBlock(cap, i) == [block |-> "value", capacity |-> cap, slot |-> i]

\* a system call made by an arena operation
MallocCall(p) == <<"malloc", p>>

SysFreeCall(p) == <<"free", p>>

\* the system calls at positions i.. of a sequence, made one after the other
RECURSIVE SysReplay(_, _, _)
SysReplay(h, sys, i) ==
  IF i > Len(sys)
    THEN h
    ELSE SysReplay(IF sys[i][1] = "malloc"
                     THEN HeapMalloc(h, sys[i][2])
                     ELSE HeapFree(h, sys[i][2]),
                   sys, i + 1)

(***************************************************************************)
(* XArena (stdx_arena.h).  The chain of chunks is a sequence, head first.  *)
(* The fields data_frees and frees of a chunk and frees of the arena count *)
(* the free() calls made on the chunk's buffer, the chunk struct and the   *)
(* arena struct.  Chunks are numbered in the order of their creation.      *)
(* The input oom of an operation names the malloc of the operation that    *)
(* returns null: "arena" (the XArena struct), "chunk" (the XArenaChunk     *)
(* struct), "data" (the buffer), or "none".  Every operation returns the   *)
(* system calls it made, in program order, in the field sys; a malloc that *)
(* returned null is not among them.                                        *)
(***************************************************************************)
OomOfChunk == {"none", "chunk", "data"}

OomOfArena == {"none", "arena", "chunk", "data"}

\* a variant that keeps the chunk header when its buffer cannot be allocated
x_arena_chunk_create_leak(size, number, oom) ==
  IF oom = "chunk"
    THEN [chunk |-> NullPtr, sys |-> <<>>]
    ELSE IF oom = "data"
           THEN [chunk |-> NullPtr,
                 sys |-> <<MallocCall(ChunkBlock(number))>>]
           ELSE [chunk |-> [capacity |-> size, used |-> 0,
                            data_frees |-> 0, frees |-> 0],
                 sys |-> <<MallocCall(ChunkBlock(number)),
                           MallocCall(DataBlock(number))>>]

x_arena_chunk_create(size, number, oom) ==
  IF oom = "chunk"
    THEN [chunk |-> NullPtr, sys |-> <<>>]
    ELSE IF oom = "data"
           THEN [chunk |-> NullPtr,
                 sys |-> <<MallocCall(ChunkBlock(number)),
                           SysFreeCall(ChunkBlock(number))>>]
           ELSE [chunk |-> [capacity |-> size, used |-> 0,
                            data_frees |-> 0, frees |-> 0],
                 sys |-> <<MallocCall(ChunkBlock(number)),
                           MallocCall(DataBlock(number))>>]

x_arena_create(chunk_size, oom) ==
  IF oom = "arena"
    THEN [arena |-> NullPtr, sys |-> <<>>]
    ELSE LET c == x_arena_chunk_create(chunk_size, 1, oom)
         IN  IF IsNull(c.chunk)
               THEN [arena |-> NullPtr,
                     sys |-> <<MallocCall(ArenaBlock)>> \o c.sys
                               \o <<SysFreeCall(ArenaBlock)>>]
               ELSE [arena |-> [chunk_size |-> chunk_size,
                                chunks |-> <<c.chunk>>,
                                frees |-> 0],
                     sys |-> <<MallocCall(ArenaBlock)>> \o c.sys]

\* a variant of the loop that compares the request with the capacity alone
RECURSIVE first_fit_by_capacity(_, _, _)
first_fit_by_capacity(chunks, i, size) ==
  IF i > Len(chunks)
    THEN 0
    ELSE IF chunks[i].capacity >= size
           THEN i
           ELSE first_fit_by_capacity(chunks, i + 1, size)

\* a variant of the loop that prefers the oldest chunk with room
first_fit_oldest(chunks, i, size) ==
  LET fitting == {j \in i..Len(chunks) :
                    chunks[j].capacity - chunks[j].used >= size}
  IN  IF fitting = {}
        THEN 0
        ELSE CHOOSE j \in fitting : \A k \in fitting : k <= j

\* the for loop of x_arena_alloc, entered at position i of the chain: the
\* position of the first chunk with remaining >= size, 0 when there is none
RECURSIVE first_fit(_, _, _)
first_fit(chunks, i, size) ==
  IF i > Len(chunks)
    THEN 0
    ELSE IF chunks[i].capacity - chunks[i].used >= size
           THEN i
           ELSE first_fit(chunks, i + 1, size)

\* the chunk at position i of the chain is chunk number Len(chunks) - i + 1
ChunkNumber(chunks, i) == Len(chunks) - i + 1

\* a variant that forgets the offset
ChunkPtrBase(number, off) == [chunk |-> number, off |-> 0]

\* a pointer data + off into the buffer of a chunk
ChunkPtr(number, off) == [chunk |-> number, off |-> off]

\* a variant whose new chunk always has the chunk size of the arena
x_arena_alloc_fixed_chunk(arena, size, oom) ==
  IF size = 0 \/ IsNull(arena)
    THEN [arena |-> arena, ptr |-> NullPtr, sys |-> <<>>]
    ELSE LET i == first_fit(arena.chunks, 1, size)
         IN  IF i # 0
               THEN [arena |-> [arena EXCEPT !.chunks[i].used = @ + size],
                     ptr |-> ChunkPtr(ChunkNumber(arena.chunks, i),
                                      arena.chunks[i].used),
                     sys |-> <<>>]
               ELSE LET c == x_arena_chunk_create(arena.chunk_size,
                                                  Len(arena.chunks) + 1, oom)
                    IN  IF IsNull(c.chunk)
                          THEN [arena |-> arena, ptr |-> NullPtr,
                                sys |-> c.sys]
                          ELSE [arena |-> [arena EXCEPT !.chunks =
                                             <<[c.chunk EXCEPT !.used = size]>>
                                               \o @],
                                ptr |-> ChunkPtr(Len(arena.chunks) + 1, 0),
                                sys |-> c.sys]

\* a variant that serves a request of size 0
x_arena_alloc_zero_served(arena, size, oom) ==
  IF IsNull(arena)
    THEN [arena |-> arena, ptr |-> NullPtr, sys |-> <<>>]
    ELSE LET i == first_fit(arena.chunks, 1, size)
         IN  IF i # 0
               THEN [arena |-> [arena EXCEPT !.chunks[i].used = @ + size],
                     ptr |-> ChunkPtr(ChunkNumber(arena.chunks, i),
                                      arena.chunks[i].used),
                     sys |-> <<>>]
               ELSE LET chunk_size == IF size > arena.chunk_size
                                        THEN size
                                        ELSE arena.chunk_size
                        c == x_arena_chunk_create(chunk_size,
                                                  Len(arena.chunks) + 1, oom)
                    IN  IF IsNull(c.chunk)
                          THEN [arena |-> arena, ptr |-> NullPtr,
                                sys |-> c.sys]
                          ELSE [arena |-> [arena EXCEPT !.chunks =
                                             <<[c.chunk EXCEPT !.used = size]>>
                                               \o @],
                                ptr |-> ChunkPtr(Len(arena.chunks) + 1, 0),
                                sys |-> c.sys]

x_arena_alloc(arena, size, oom) ==
  IF size = 0 \/ IsNull(arena)
    THEN [arena |-> arena, ptr |-> NullPtr, sys |-> <<>>]
    ELSE LET i == first_fit(arena.chunks, 1, size)
         IN  IF i # 0
               THEN [arena |-> [arena EXCEPT !.chunks[i].used = @ + size],
                     ptr |-> ChunkPtr(ChunkNumber(arena.chunks, i),
                                      arena.chunks[i].used),
                     sys |-> <<>>]
               ELSE LET chunk_size == IF size > arena.chunk_size
                                        THEN size
                                        ELSE arena.chunk_size
                        c == x_arena_chunk_create(chunk_size,
                                                  Len(arena.chunks) + 1, oom)
                    IN  IF IsNull(c.chunk)
                          THEN [arena |-> arena, ptr |-> NullPtr,
                                sys |-> c.sys]
                          ELSE [arena |-> [arena EXCEPT !.chunks =
                                             <<[c.chunk EXCEPT !.used = size]>>
                                               \o @],
                                ptr |-> ChunkPtr(Len(arena.chunks) + 1, 0),
                                sys |-> c.sys]

\* a variant that resets the head chunk only
x_arena_reset_head(arena) ==
  IF IsNull(arena)
    THEN arena
    ELSE [arena EXCEPT !.chunks[1].used = 0]

x_arena_reset(arena) ==
  IF IsNull(arena)
    THEN arena
    ELSE [arena EXCEPT !.chunks =
            [i \in 1..Len(arena.chunks) |->
               [arena.chunks[i] EXCEPT !.used = 0]]]

x_arena_destroy(arena) ==
  IF IsNull(arena)
    THEN arena
    ELSE [arena EXCEPT !.chunks =
                         [i \in 1..Len(arena.chunks) |->
                            [arena.chunks[i] EXCEPT !.data_frees = @ + 1,
                                                    !.frees = @ + 1]],
                       !.frees = @ + 1]

\* the free() calls of x_arena_destroy, in program order: the buffer and the
\* struct of every chunk from the head of the chain on, then the XArena
destroy_frees(arena) ==
  IF IsNull(arena)
    THEN <<>>
    ELSE [j \in 1..(2 * Len(arena.chunks) + 1) |->
            IF j > 2 * Len(arena.chunks)
              THEN SysFreeCall(ArenaBlock)
              ELSE IF j % 2 = 1
                     THEN SysFreeCall(DataBlock(
                            ChunkNumber(arena.chunks, (j + 1) \div 2)))
                     ELSE SysFreeCall(ChunkBlock(
                            ChunkNumber(arena.chunks, j \div 2)))]

(***************************************************************************)
(* XAllocator (stdx_allocator.h).  The memory an allocator works on is the *)
(* record m: its field heap is the heap of malloc and free, and userdata   *)
(* names the field of m that holds the arena.  The argument dest of an     *)
(* allocation is the pointer field the caller stores the result in.        *)
(***************************************************************************)
\* malloc succeeding
stdx_malloc_wrapper(self, m, size, dest) ==
  [mem |-> [m EXCEPT !.heap = HeapMalloc(@, dest)], ptr |-> dest]

stdx_free_wrapper(self, m, ptr) == [m EXCEPT !.heap = HeapFree(@, ptr)]

stdx_default_allocator ==
  [alloc |-> "stdx_malloc_wrapper",
   free |-> "stdx_free_wrapper",
   userdata |-> "NULL"]

\* the mallocs of a chunk the arena creates for the caller succeed
x_arena_alloc_wrapper(self, m, size) ==
  LET r == x_arena_alloc(m[self.userdata], size, "none")
  IN  [mem |-> [m EXCEPT ![self.userdata] = r.arena,
                         !.heap = SysReplay(@, r.sys, 1)],
       ptr |-> r.ptr]

\* variant: a release rewinds the arena
x_arena_free_rewind(self, m, ptr) ==
  [m EXCEPT ![self.userdata] = x_arena_reset(@)]

x_arena_free_noop(self, m, ptr) == m

x_arena_allocator ==
  [alloc |-> "x_arena_alloc_wrapper",
   free |-> "x_arena_free_noop",
   userdata |-> "arena"]

stdx_alloc(a, m, size, dest) ==
  LET f == IF IsNull(a) THEN stdx_default_allocator.alloc ELSE a.alloc
  IN  IF f = "x_arena_alloc_wrapper"
        THEN x_arena_alloc_wrapper(a, m, size)
        ELSE stdx_malloc_wrapper(a, m, size, dest)

stdx_free(a, m, ptr) ==
  LET f == IF IsNull(a) THEN stdx_default_allocator.free ELSE a.free
  IN  IF f = "x_arena_free_noop"
        THEN x_arena_free_noop(a, m, ptr)
        ELSE stdx_free_wrapper(a, m, ptr)

\* the allocator calls a table operation makes: an allocation of size bytes
\* whose result is stored in the field dest, and the release of a block
AllocCall(size, dest) == <<"alloc", size, dest>>

FreeCall(ptr) == <<"free", ptr>>

\* the calls at positions lo..hi, made one after the other through allocator
\* a on memory m; ok is false when an allocation returned null (the table
\* operations use the block without a check).  The range is split in two
\* halves that are replayed in order.
RECURSIVE Replay(_, _, _, _, _)
Replay(calls, lo, hi, a, m) ==
  IF lo > hi
    THEN [mem |-> m, ok |-> TRUE]
    ELSE IF lo = hi
           THEN IF calls[lo][1] = "alloc"
                  THEN LET r == stdx_alloc(a, m, calls[lo][2], calls[lo][3])
                       IN  [mem |-> r.mem, ok |-> ~IsNull(r.ptr)]
                  ELSE [mem |-> stdx_free(a, m, calls[lo][2]), ok |-> TRUE]
           ELSE LET mid == (lo + hi) \div 2
                    first == Replay(calls, lo, mid, a, m)
                IN  IF first.ok
                      THEN Replay(calls, mid + 1, hi, a, first.mem)
                      ELSE first

(***************************************************************************)
(* The callbacks the table is created with: an integer key hashed by its   *)
(* own value and compared by value.                                        *)
(***************************************************************************)
hash_fn(key) == key

eq_fn(a, b) == a = b

(***************************************************************************)
(* The string callbacks.  A key block of key_size bytes is represented by  *)
(* the number whose little-endian bytes it holds: for a table whose keys   *)
(* are char pointers, the address the caller's pointer variable holds.     *)
(* The callbacks are handed the address of the key block and read the      *)
(* bytes that start there.                                                 *)
(***************************************************************************)
ByteRange == 256

\* byte i of the little-endian representation of n
RECURSIVE ByteAt(_, _)
ByteAt(n, i) ==
  IF i = 1 THEN n % ByteRange ELSE ByteAt(n \div ByteRange, i - 1)

\* the bytes of a key block holding n
Bytes(n) == [i \in 1..KeySize |-> ByteAt(n, i)]

\* the length of the C string that starts at byte i of bytes: the count of
\* bytes before the first zero byte
RECURSIVE StrLen(_, _)
StrLen(bytes, i) ==
  IF i > Len(bytes) \/ bytes[i] = 0 THEN 0 ELSE 1 + StrLen(bytes, i + 1)

\* the C string that starts at the first byte
CStr(bytes) == SubSeq(bytes, 1, StrLen(bytes, 1))

\* the while loop of stdx_hash_str, entered with hash before character i;
\* the strings read here have at most KeySize characters, for which the
\* size_t does not wrap
RECURSIVE hash_str_loop(_, _, _)
hash_str_loop(hash, str, i) ==
  IF i > Len(str)
    THEN hash
    ELSE hash_str_loop((hash * 32 + hash) + str[i], str, i + 1)

stdx_hash_str(ptr) == hash_str_loop(5381, CStr(Bytes(ptr)), 1)

\* strcmp(a, b) == 0
stdx_str_eq(a, b) == CStr(Bytes(a)) = CStr(Bytes(b))

\* table->hash_fn(key) and table->eq_fn(a, b)
call_hash_fn(t, key) ==
  IF t.hash_fn = "stdx_hash_str" THEN stdx_hash_str(key) ELSE hash_fn(key)

call_eq_fn(t, a, b) ==
  IF t.eq_fn = "stdx_str_eq" THEN stdx_str_eq(a, b) ELSE eq_fn(a, b)

(***************************************************************************)
(* XHashEntry and XHashtable                                               *)
(***************************************************************************)
ZeroEntry == [key |-> NULL, value |-> NULL, occupied |-> FALSE]

ZeroEntries(cap) == [i \in 0..(cap - 1) |-> ZeroEntry]

\* the input oom names the allocation that returns null: "table", "entries"
\* or "none".  calls holds the allocations that succeeded.  With the slot
\* array missing, memset is handed a null pointer: null_write.
OomOfTable == {"none", "table", "entries"}

x_hashtable_create_ex(key_size, value_size, hfn, efn, allocator, oom) ==
  LET t(entries) == [key_size |-> key_size,
                     value_size |-> value_size,
                     count |-> 0,
                     capacity |-> INITIAL_CAPACITY,
                     entries |-> entries,
                     hash_fn |-> hfn,
                     eq_fn |-> efn,
                     allocator |-> allocator]
  IN  IF oom = "table"
        THEN [table |-> NullPtr, calls |-> <<>>, null_write |-> FALSE]
        ELSE IF oom = "entries"
               THEN [table |-> t(NullPtr),
                     calls |-> <<AllocCall(SizeofXHashtable, TableBlock)>>,
                     null_write |-> TRUE]
               ELSE [table |-> t(ZeroEntries(INITIAL_CAPACITY)),
                     calls |-> <<AllocCall(SizeofXHashtable, TableBlock),
                                 AllocCall(INITIAL_CAPACITY * SizeofXHashEntry,
                                           EntriesBlock(INITIAL_CAPACITY))>>,
                     null_write |-> FALSE]

\* the iterations lo..hi of the for loop of x_hashtable_destroy: the key and
\* the value of every occupied entry are released.  The range is split in two
\* halves that are run in order.
RECURSIVE destroy_loop(_, _, _)
destroy_loop(t, lo, hi) ==
  IF lo > hi
    THEN <<>>
    ELSE IF lo = hi
           THEN IF t.entries[lo].occupied
                  THEN <<FreeCall(KeyBlock(t.capacity, lo)),
                         FreeCall(ValueBlock(t.capacity, lo))>>
                  ELSE <<>>
           ELSE LET mid == (lo + hi) \div 2
                IN  destroy_loop(t, lo, mid) \o destroy_loop(t, mid + 1, hi)

\* a variant that releases the slot array and the table only
x_hashtable_destroy_shallow(t) ==
  IF IsNull(t)
    THEN [calls |-> <<>>]
    ELSE [calls |-> <<FreeCall(EntriesBlock(t.capacity)),
                      FreeCall(TableBlock)>>]

x_hashtable_destroy(t) ==
  IF IsNull(t)
    THEN [calls |-> <<>>]
    ELSE [calls |-> destroy_loop(t, 0, t.capacity - 1)
                      \o <<FreeCall(EntriesBlock(t.capacity)),
                            FreeCall(TableBlock)>>]

\* variant: the probe does not look out for its start index
probe_continues_no_wrap(t, key, idx, start) ==
  /\ t.entries[idx].occupied
  /\ ~call_eq_fn(t, key, t.entries[idx].key)

\* variant: the probe gives up after the two slots that follow the bucket
probe_continues_near(t, key, idx, start) ==
  /\ t.entries[idx].occupied
  /\ ~call_eq_fn(t, key, t.entries[idx].key)
  /\ (idx + 1) % t.capacity # start
  /\ (idx + 1) % t.capacity # (start + 2) % t.capacity

\* the while loop of probe_index goes round once more from idx: the entry is
\* occupied, its key is not the key looked for, and the next index is not
\* the start index
probe_continues(t, key, idx, start) ==
  /\ t.entries[idx].occupied
  /\ ~call_eq_fn(t, key, t.entries[idx].key)
  /\ (idx + 1) % t.capacity # start

\* what probe_index returns when the loop is left at idx: the index of an
\* unoccupied entry, the index of the entry with the key, or the index after
\* idx when the probe is back at its start
probe_exit(t, key, idx) ==
  IF ~t.entries[idx].occupied
    THEN [idx |-> idx, found |-> FALSE]
    ELSE IF call_eq_fn(t, key, t.entries[idx].key)
           THEN [idx |-> idx, found |-> TRUE]
           ELSE [idx |-> (idx + 1) % t.capacity, found |-> FALSE]

\* the while loop of probe_index, entered with idx and the start index
RECURSIVE probe_loop(_, _, _, _)
probe_loop(t, key, idx, start) ==
  IF probe_continues(t, key, idx, start)
    THEN probe_loop(t, key, (idx + 1) % t.capacity, start)
    ELSE probe_exit(t, key, idx)

probe_index(t, key) ==
  LET idx == call_hash_fn(t, key) % t.capacity
  IN  probe_loop(t, key, idx, idx)

\* variant: the table is grown only once it is full
LoadFactorReached_full(t) == t.count >= t.capacity

\* variant: the table is grown only once the load factor is above 0.75
LoadFactorReached_above(t) == LoadDen * t.count > LoadNum * t.capacity

\* the load factor test of x_hashtable_set: (double)count / capacity >= 0.75
LoadFactorReached(t) == LoadDen * t.count >= LoadNum * t.capacity

\* variant: the value of a key that is already present is left as it was
set_probe_and_store_keep(t, key, value) ==
  LET p == probe_index(t, key)
      idx == p.idx
  IN  IF ~p.found
        THEN [table |-> [t EXCEPT !.entries[idx] =
                             [key |-> key, value |-> value, occupied |-> TRUE],
                           !.count = t.count + 1],
              calls |-> <<AllocCall(t.key_size, KeyBlock(t.capacity, idx)),
                          AllocCall(t.value_size,
                                    ValueBlock(t.capacity, idx))>>]
        ELSE [table |-> t, calls |-> <<>>]

\* variant: count goes up on every set, also of a key that is present
set_probe_and_store_count_all(t, key, value) ==
  LET p == probe_index(t, key)
      idx == p.idx
  IN  IF ~p.found
        THEN [table |-> [t EXCEPT !.entries[idx] =
                             [key |-> key, value |-> value, occupied |-> TRUE],
                           !.count = t.count + 1],
              calls |-> <<AllocCall(t.key_size, KeyBlock(t.capacity, idx)),
                          AllocCall(t.value_size,
                                    ValueBlock(t.capacity, idx))>>]
        ELSE [table |-> [t EXCEPT !.entries[idx].value = value,
                                  !.count = t.count + 1],
              calls |-> <<>>]

\* the part of x_hashtable_set after the load factor test
set_probe_and_store(t, key, value) ==
  LET p == probe_index(t, key)
      idx == p.idx
  IN  IF ~p.found
        THEN [table |-> [t EXCEPT !.entries[idx] =
                             [key |-> key, value |-> value, occupied |-> TRUE],
                           !.count = t.count + 1],
              calls |-> <<AllocCall(t.key_size, KeyBlock(t.capacity, idx)),
                          AllocCall(t.value_size,
                                    ValueBlock(t.capacity, idx))>>]
        ELSE [table |-> [t EXCEPT !.entries[idx].value = value],
              calls |-> <<>>]

RECURSIVE x_hashtable_set(_, _, _)
RECURSIVE x_hashtable_rehash(_)
RECURSIVE x_hashtable_rehash_grow_half(_)
RECURSIVE rehash_loop(_, _, _, _, _)

\* the iterations lo..hi of the for loop of x_hashtable_rehash, entered with
\* the table t: every occupied old entry is stored with x_hashtable_set, which
\* returns (true) before the loop releases the old blocks and goes on.  The
\* range is split in two halves that are run in order.
rehash_loop(t, old_entries, old_cap, lo, hi) ==
  IF lo > hi
    THEN [table |-> t, calls |-> <<>>]
    ELSE IF lo = hi
           THEN IF ~old_entries[lo].occupied
                  THEN [table |-> t, calls |-> <<>>]
                  ELSE LET s == x_hashtable_set(t, old_entries[lo].key,
                                                old_entries[lo].value)
                       IN  [table |-> s.table,
                            calls |-> s.calls
                                        \o <<FreeCall(KeyBlock(old_cap, lo)),
                                              FreeCall(ValueBlock(old_cap, lo))>>]
           ELSE LET mid == (lo + hi) \div 2
                    first == rehash_loop(t, old_entries, old_cap, lo, mid)
                    second == rehash_loop(first.table, old_entries, old_cap,
                                          mid + 1, hi)
                IN  [calls |-> first.calls \o second.calls,
                     table |-> second.table]

\* variant: the capacity grows by half instead of doubling
x_hashtable_rehash_grow_half(t) ==
  LET old_cap == t.capacity
      old_entries == t.entries
      new_cap == t.capacity + t.capacity \div 2
      t0 == [t EXCEPT !.capacity = new_cap,
                      !.entries = ZeroEntries(new_cap),
                      !.count = 0]
      r == rehash_loop(t0, old_entries, old_cap, 0, old_cap - 1)
  IN  [table |-> r.table,
       calls |-> <<AllocCall(new_cap * SizeofXHashEntry,
                             EntriesBlock(new_cap))>>
                   \o r.calls \o <<FreeCall(EntriesBlock(old_cap))>>]

x_hashtable_rehash(t) ==
  LET old_cap == t.capacity
      old_entries == t.entries
      new_cap == t.capacity * 2
      t0 == [t EXCEPT !.capacity = new_cap,
                      !.entries = ZeroEntries(new_cap),
                      !.count = 0]
      r == rehash_loop(t0, old_entries, old_cap, 0, old_cap - 1)
  IN  [table |-> r.table,
       calls |-> <<AllocCall(new_cap * SizeofXHashEntry,
                             EntriesBlock(new_cap))>>
                   \o r.calls \o <<FreeCall(EntriesBlock(old_cap))>>]

x_hashtable_set(t, key, value) ==
  IF IsNull(t)
    THEN [table |-> t, calls |-> <<>>, ret |-> FALSE]
    ELSE LET r == IF LoadFactorReached(t)
                    THEN x_hashtable_rehash(t)
                    ELSE [table |-> t, calls |-> <<>>]
             s == set_probe_and_store(r.table, key, value)
         IN  [table |-> s.table, calls |-> r.calls \o s.calls, ret |-> TRUE]

\* out_value is NULL when nothing is copied to *out_value
x_hashtable_get(t, key) ==
  IF IsNull(t)
    THEN [ret |-> FALSE, out_value |-> NULL]
    ELSE LET p == probe_index(t, key)
         IN  IF ~p.found
               THEN [ret |-> FALSE, out_value |-> NULL]
               ELSE [ret |-> TRUE, out_value |-> t.entries[p.idx].value]

x_hashtable_has(t, key) == probe_index(t, key).found

\* variant: the slot is cleared but count is left as it was
x_hashtable_remove_keep_count(t, key) ==
  LET p == probe_index(t, key)
  IN  IF ~p.found
        THEN [table |-> t, calls |-> <<>>, ret |-> FALSE]
        ELSE [table |-> [t EXCEPT !.entries[p.idx] = ZeroEntry],
              calls |-> <<FreeCall(KeyBlock(t.capacity, p.idx)),
                          FreeCall(ValueBlock(t.capacity, p.idx))>>,
              ret |-> TRUE]

\* the entries that follow slot idx up to the next unoccupied slot are taken
\* out and stored again (deletion that repairs the probe chain)
RECURSIVE reinsert_cluster(_, _)
reinsert_cluster(t, idx) ==
  IF ~t.entries[idx].occupied
    THEN t
    ELSE LET e == t.entries[idx]
             t1 == [t EXCEPT !.entries[idx] = ZeroEntry, !.count = t.count - 1]
             t2 == set_probe_and_store(t1, e.key, e.value).table
         IN  reinsert_cluster(t2, (idx + 1) % t.capacity)

\* variant: remove repairs the probe chain behind the slot it clears
x_hashtable_remove_repair(t, key) ==
  LET p == probe_index(t, key)
  IN  IF ~p.found
        THEN [table |-> t, calls |-> <<>>, ret |-> FALSE]
        ELSE [table |-> reinsert_cluster(
                          [t EXCEPT !.entries[p.idx] = ZeroEntry,
                                    !.count = t.count - 1],
                          (p.idx + 1) % t.capacity),
              calls |-> <<FreeCall(KeyBlock(t.capacity, p.idx)),
                          FreeCall(ValueBlock(t.capacity, p.idx))>>,
              ret |-> TRUE]

\* variant: the entry behind the cleared slot is shifted into it
x_hashtable_remove_shift(t, key) ==
  LET p == probe_index(t, key)
      next == (p.idx + 1) % t.capacity
  IN  IF ~p.found
        THEN [table |-> t, calls |-> <<>>, ret |-> FALSE]
        ELSE [table |-> [t EXCEPT !.entries[p.idx] = t.entries[next],
                                  !.entries[next] = ZeroEntry,
                                  !.count = t.count - 1],
              calls |-> <<FreeCall(KeyBlock(t.capacity, p.idx)),
                          FreeCall(ValueBlock(t.capacity, p.idx))>>,
              ret |-> TRUE]

x_hashtable_remove(t, key) ==
  LET p == probe_index(t, key)
  IN  IF ~p.found
        THEN [table |-> t, calls |-> <<>>, ret |-> FALSE]
        ELSE [table |-> [t EXCEPT !.entries[p.idx] = ZeroEntry,
                                  !.count = t.count - 1],
              calls |-> <<FreeCall(KeyBlock(t.capacity, p.idx)),
                          FreeCall(ValueBlock(t.capacity, p.idx))>>,
              ret |-> TRUE]

x_hashtable_count(t) == IF IsNull(t) THEN 0 ELSE t.count

\* the while loop of x_hashtable_iter_next skips the entry at index
iter_skips(t, index) == index < t.capacity /\ ~t.entries[index].occupied

\* variant: the index moves on only when an unoccupied slot is skipped
RECURSIVE iter_next_stay(_, _)
iter_next_stay(t, index) ==
  IF iter_skips(t, index)
    THEN iter_next_stay(t, index + 1)
    ELSE IF index < t.capacity
           THEN [index |-> index, ret |-> TRUE, slot |-> index,
                 out_key |-> t.entries[index].key,
                 out_value |-> t.entries[index].value]
           ELSE [index |-> index, ret |-> FALSE, slot |-> NULL,
                 out_key |-> NULL, out_value |-> NULL]

\* XHashIter: index, and bound when iter->table points to the table
x_hashtable_iter_init(t) == [bound |-> TRUE, index |-> 0]

\* the while loop of x_hashtable_iter_next, entered with iter->index; slot is
\* the slot the returned key and value pointers point into
RECURSIVE x_hashtable_iter_next(_, _)
x_hashtable_iter_next(t, index) ==
  IF iter_skips(t, index)
    THEN x_hashtable_iter_next(t, index + 1)
    ELSE IF index < t.capacity
           THEN [index |-> index + 1, ret |-> TRUE, slot |-> index,
                 out_key |-> t.entries[index].key,
                 out_value |-> t.entries[index].value]
           ELSE [index |-> index, ret |-> FALSE, slot |-> NULL,
                 out_key |-> NULL, out_value |-> NULL]

(***************************************************************************)
(* State                                                                   *)
(***************************************************************************)
VARIABLES
  table,   \* the XHashtable the client holds, NullPtr when it holds none
  arena,   \* the XArena, NullPtr when the client has none
  iter,    \* the XHashIter of the client
  fill,    \* loop variable i of the populate loop
  nops,    \* number of calls made outside the populate loop so far
  model,   \* history: for each key, the value of its latest set, or NULL
           \* when it was never set or its latest mutating call was a remove
  yielded, \* history: what the iter_next calls since iter_init have yielded
  last,    \* history: the call that was made last and what it returned
  heap,    \* the heap of malloc and free
  trace,   \* history: the calls made on the arena by a client of the arena
  probe,   \* the locals of a call of probe_index that is under way
  pool,    \* the XThreadPool, NullPtr when the program has none
  workers, \* for each worker thread, its position in thread_main and its task
  producer,   \* the thread that calls threadpool_enqueue: position and task
  destroyer,  \* the thread that calls threadpool_destroy: position and loop
              \* variable
  hist     \* history of the pool: tasks appended, taken, run and dropped,
           \* and what the enqueue calls returned

tableVars ==
  <<table, arena, iter, fill, nops, model, yielded, last, heap, trace>>

poolVars == <<pool, workers, producer, destroyer, hist>>

vars == <<tableVars, probe, poolVars>>

\* no call of probe_index is under way
NoProbe == [active |-> FALSE]

\* the program has no thread pool
NoPool ==
  /\ pool = NullPtr
  /\ workers = <<>>
  /\ producer = NullPtr
  /\ destroyer = NullPtr
  /\ hist = NullPtr

Call(op, key, ret, after_set) ==
  [op |-> op, key |-> key, ret |-> ret, after_set |-> after_set]

\* x_hashtable_create(...): a new table on the default allocator
Init ==
  /\ LET c == x_hashtable_create_ex(KeySize, ValueSize, "hash_fn", "eq_fn",
                                    NullPtr, "none")
         r == Replay(c.calls, 1, Len(c.calls), NullPtr,
                     [arena |-> NullPtr, heap |-> EmptyHeap])
     IN  /\ table = c.table
         /\ heap = r.mem.heap
  /\ arena = NullPtr
  /\ trace = <<>>
  /\ iter = [bound |-> FALSE, index |-> 0]
  /\ fill = 1
  /\ nops = 0
  /\ model = [k \in Keys |-> NULL]
  /\ yielded = <<>>
  /\ last = Call("create", NULL, TRUE, FALSE)
  /\ probe = NoProbe
  /\ NoPool

\* the allocator calls of a table operation take effect on the arena
Allocate(calls) ==
  \E r \in {Replay(calls, 1, Len(calls), table.allocator,
                   [arena |-> arena, heap |-> heap])} :
    /\ r.ok
    /\ arena' = r.mem.arena
    /\ heap' = r.mem.heap

\* a call of x_hashtable_set(table, &k, &v)
SetCall(k, v) ==
  /\ ~IsNull(table)
  /\ \E r \in {x_hashtable_set(table, k, v)} :
       /\ table' = r.table
       /\ Allocate(r.calls)
       /\ last' = Call("set", k, r.ret, FALSE)
  /\ model' = [model EXCEPT ![k] = v]

\* a call of x_hashtable_remove(table, &k)
RemoveCall(k) ==
  /\ ~IsNull(table)
  /\ \E r \in {x_hashtable_remove(table, k)} :
       /\ table' = r.table
       /\ Allocate(r.calls)
       /\ last' = Call("remove", k, r.ret, last.op = "set" /\ last.key = k)
  /\ model' = [model EXCEPT ![k] = NULL]

Budget ==
  /\ nops < MaxOps
  /\ nops' = nops + 1

\* the client sets a colliding key
Set(k, v) ==
  /\ Budget
  /\ SetCall(k, v)
  /\ UNCHANGED <<iter, fill, yielded, trace, probe, poolVars>>

\* one iteration of the populate loop: set(key_i, value_i); ++i
Populate ==
  /\ fill <= NumFill
  /\ SetCall(FillKey(fill), FillValue(fill))
  /\ fill' = fill + 1
  /\ UNCHANGED <<iter, nops, yielded, trace, probe, poolVars>>

\* the client removes a colliding key
Remove(k) ==
  /\ Budget
  /\ RemoveCall(k)
  /\ UNCHANGED <<iter, fill, yielded, trace, probe, poolVars>>

Next ==
  \/ \E k \in CollideKeys, v \in Values : Set(k, v)
  \/ Populate
  \/ \E k \in CollideKeys : Remove(k)

Spec == Init /\ [][Next]_vars

\* a client that never removes
NextSet ==
  \/ \E k \in CollideKeys, v \in Values : Set(k, v)
  \/ Populate

SpecSet == Init /\ [][NextSet]_vars

(***************************************************************************)
(* A client that sets and removes the colliding keys and keeps a record of *)
(* its calls and what they returned                                        *)
(***************************************************************************)
ChurnSet(k, v) ==
  /\ nops < MaxChurn
  /\ nops' = nops + 1
  /\ SetCall(k, v)
  /\ trace' = Append(trace, last')
  /\ UNCHANGED <<iter, fill, yielded, probe, poolVars>>

ChurnRemove(k) ==
  /\ nops < MaxChurn
  /\ nops' = nops + 1
  /\ RemoveCall(k)
  /\ trace' = Append(trace, last')
  /\ UNCHANGED <<iter, fill, yielded, probe, poolVars>>

NextChurn ==
  \/ \E k \in CollideKeys, v \in Values : ChurnSet(k, v)
  \/ \E k \in CollideKeys : ChurnRemove(k)

SpecChurn == Init /\ [][NextChurn]_vars

(***************************************************************************)
(* One call of probe_index, iteration by iteration, on any table whose     *)
(* occupied slots are one run of colliding keys: from an empty table up to *)
(* a table with every slot occupied, which set and remove never produce     *)
(***************************************************************************)
\* the table with slots first, first + 1, ... (n of them, wrapping) occupied
\* by the keys first + 16, first + 32, ..., whose bucket is first
RunTable(first, n) ==
  LET t == x_hashtable_create_ex(KeySize, ValueSize, "hash_fn", "eq_fn",
                                 NullPtr, "none").table
      pos(i) == (i + t.capacity - first) % t.capacity
  IN  [t EXCEPT !.count = n,
                !.entries = [i \in 0..(t.capacity - 1) |->
                               IF pos(i) < n
                                 THEN [key |-> first + t.capacity * (pos(i) + 1),
                                       value |-> 1, occupied |-> TRUE]
                                 ELSE ZeroEntry]]

\* keys of the buckets 0 and 15: the first, a middle and the last key of a
\* run, and a key that is in no run
ProbeKeys ==
  {bucket + INITIAL_CAPACITY * j :
     bucket \in {0, INITIAL_CAPACITY - 1},
     j \in {1, INITIAL_CAPACITY \div 2, INITIAL_CAPACITY,
            INITIAL_CAPACITY + 1}}

InitProbe ==
  /\ \E first \in 0..(INITIAL_CAPACITY - 1), n \in 0..INITIAL_CAPACITY :
       table = RunTable(first, n)
  /\ arena = NullPtr
  /\ iter = [bound |-> FALSE, index |-> 0]
  /\ fill = 1
  /\ nops = 0
  /\ model = [k \in Keys |-> NULL]
  /\ yielded = <<>>
  /\ last = Call("none", NULL, FALSE, FALSE)
  /\ heap = EmptyHeap
  /\ trace = <<>>
  /\ probe = NoProbe
  /\ NoPool

\* probe_index is entered: idx = hash_fn(key) % capacity; start = idx;
\* inspected counts the evaluations of entries[idx].occupied so far
ProbeBegin(key) ==
  /\ ~probe.active
  /\ last.op = "none"
  /\ probe' = [active |-> TRUE, key |-> key,
               idx |-> call_hash_fn(table, key) % table.capacity,
               start |-> call_hash_fn(table, key) % table.capacity,
               inspected |-> 0]
  /\ UNCHANGED <<tableVars, poolVars>>

\* one iteration of the while loop that ends with going round again
ProbeStep ==
  /\ probe.active
  /\ probe_continues(table, probe.key, probe.idx, probe.start)
  /\ probe' = [probe EXCEPT !.idx = (probe.idx + 1) % table.capacity,
                            !.inspected = @ + 1]
  /\ UNCHANGED <<tableVars, poolVars>>

\* the last evaluation of the loop condition and the return
ProbeReturn ==
  /\ probe.active
  /\ ~probe_continues(table, probe.key, probe.idx, probe.start)
  /\ \E r \in {probe_exit(table, probe.key, probe.idx)} :
       last' = [op |-> "probe", key |-> probe.key, ret |-> r.found,
                after_set |-> FALSE, idx |-> r.idx,
                inspected |-> probe.inspected + 1]
  /\ probe' = NoProbe
  /\ UNCHANGED <<table, arena, iter, fill, nops, model, yielded, heap, trace,
                 poolVars>>

NextProbe ==
  \/ \E key \in ProbeKeys : ProbeBegin(key)
  \/ ProbeStep
  \/ ProbeReturn

\* the thread that runs probe_index keeps running
SpecProbe ==
  /\ InitProbe
  /\ [][NextProbe]_vars
  /\ WF_vars(ProbeStep)
  /\ WF_vars(ProbeReturn)

(***************************************************************************)
(* A client that iterates                                                  *)
(***************************************************************************)
IterInit ==
  /\ ~IsNull(table)
  /\ iter' = x_hashtable_iter_init(table)
  /\ yielded' = <<>>
  /\ last' = Call("iter_init", NULL, TRUE, FALSE)
  /\ UNCHANGED <<table, arena, fill, nops, model, heap, trace, probe, poolVars>>

IterNext ==
  /\ iter.bound
  /\ \E r \in {x_hashtable_iter_next(table, iter.index)} :
       /\ iter' = [iter EXCEPT !.index = r.index]
       /\ yielded' = IF r.ret
                       THEN Append(yielded, [slot |-> r.slot, key |-> r.out_key,
                                             value |-> r.out_value])
                       ELSE yielded
       /\ last' = Call("iter_next", r.out_key, r.ret, FALSE)
  /\ UNCHANGED <<table, arena, fill, nops, model, heap, trace, probe, poolVars>>

\* the table is not changed once the iteration has begun
NextIter ==
  \/ /\ ~iter.bound
     /\ \/ \E k \in CollideKeys, v \in Values : Set(k, v)
        \/ Populate
        \/ \E k \in CollideKeys : Remove(k)
  \/ IterInit
  \/ IterNext

SpecIter == Init /\ [][NextIter]_vars

(***************************************************************************)
(* A client that keeps the table in an arena                               *)
(***************************************************************************)
\* chunk sizes the client creates the arena with
ArenaChunkSizes == {512, 2048}

\* x_arena_create(chunk_size), x_arena_allocator(arena), x_hashtable_create_ex
InitArena ==
  /\ \E chunk_size \in ArenaChunkSizes :
       LET ar == x_arena_create(chunk_size, "none")
           c == x_hashtable_create_ex(KeySize, ValueSize, "hash_fn", "eq_fn",
                                      x_arena_allocator, "none")
           r == Replay(c.calls, 1, Len(c.calls), x_arena_allocator,
                       [arena |-> ar.arena,
                        heap |-> SysReplay(EmptyHeap, ar.sys, 1)])
       IN  /\ r.ok
           /\ table = c.table
           /\ arena = r.mem.arena
           /\ heap = r.mem.heap
  /\ trace = <<>>
  /\ iter = [bound |-> FALSE, index |-> 0]
  /\ fill = 1
  /\ nops = 0
  /\ model = [k \in Keys |-> NULL]
  /\ yielded = <<>>
  /\ last = Call("create", NULL, TRUE, FALSE)
  /\ probe = NoProbe
  /\ NoPool

\* x_hashtable_destroy(table); the client drops the pointer
TableDestroy ==
  /\ ~IsNull(table)
  /\ \E r \in {x_hashtable_destroy(table)} : Allocate(r.calls)
  /\ table' = NullPtr
  /\ last' = Call("destroy", NULL, TRUE, FALSE)
  /\ UNCHANGED <<iter, fill, nops, model, yielded, trace, probe, poolVars>>

\* x_arena_reset(arena); the table lived in the arena and is given up
ArenaReset ==
  /\ ~IsNull(arena)
  /\ arena.frees = 0
  /\ arena' = x_arena_reset(arena)
  /\ table' = NullPtr
  /\ last' = Call("arena_reset", NULL, TRUE, FALSE)
  /\ UNCHANGED <<iter, fill, nops, model, yielded, heap, trace, probe, poolVars>>

\* x_arena_destroy(arena); nothing is done with the arena afterwards
ArenaDestroy ==
  /\ ~IsNull(arena)
  /\ arena.frees = 0
  /\ arena' = x_arena_destroy(arena)
  /\ table' = NullPtr
  /\ heap' = SysReplay(heap, destroy_frees(arena), 1)
  /\ last' = Call("arena_destroy", NULL, TRUE, FALSE)
  /\ UNCHANGED <<iter, fill, nops, model, yielded, trace, probe, poolVars>>

NextArena ==
  \/ \E k \in CollideKeys, v \in Values : Set(k, v)
  \/ Populate
  \/ \E k \in CollideKeys : Remove(k)
  \/ TableDestroy
  \/ ArenaReset
  \/ ArenaDestroy

SpecArena == InitArena /\ [][NextArena]_vars

(***************************************************************************)
(* The life of a table on the default allocator, from x_hashtable_create   *)
(* to x_hashtable_destroy.  An allocation of the create may fail.          *)
(***************************************************************************)
\* what a build can do in memset(NULL, 0, n) with n > 0: the process ends
\* there, or the call comes back
NullWriteOutcomes == {"crash", "return"}

CreateCall(ret, oom, null_write, outcome) ==
  [op |-> "create", key |-> NULL, ret |-> ret, after_set |-> FALSE,
   oom |-> oom, null_write |-> null_write, outcome |-> outcome]

\* no table yet
InitLife ==
  /\ table = NullPtr
  /\ arena = NullPtr
  /\ iter = [bound |-> FALSE, index |-> 0]
  /\ fill = 1
  /\ nops = 0
  /\ model = [k \in Keys |-> NULL]
  /\ yielded = <<>>
  /\ last = Call("none", NULL, FALSE, FALSE)
  /\ heap = EmptyHeap
  /\ trace = <<>>
  /\ probe = NoProbe
  /\ NoPool

\* table = x_hashtable_create(...); ret tells whether the client got a
\* non-null pointer
TableCreate(oom, outcome) ==
  /\ last.op = "none"
  /\ \E c \in {x_hashtable_create_ex(KeySize, ValueSize, "hash_fn", "eq_fn",
                                     NullPtr, oom)} :
       /\ heap' = Replay(c.calls, 1, Len(c.calls), NullPtr,
                         [arena |-> arena, heap |-> heap]).mem.heap
       /\ IF c.null_write
            THEN /\ table' = IF outcome = "crash" THEN NullPtr ELSE c.table
                 /\ last' = CreateCall(outcome = "return", oom, TRUE, outcome)
            ELSE /\ outcome = "return"
                 /\ table' = c.table
                 /\ last' = CreateCall(~IsNull(c.table), oom, FALSE, outcome)
  /\ UNCHANGED <<arena, iter, fill, nops, model, yielded, trace, probe, poolVars>>

\* the client holds a table that was built completely
Usable ==
  /\ ~IsNull(table)
  /\ ~(last.op = "create" /\ last.null_write)

NextLife ==
  \/ \E oom \in OomOfTable, outcome \in NullWriteOutcomes :
       TableCreate(oom, outcome)
  \/ /\ Usable
     /\ \/ \E k \in CollideKeys, v \in Values : Set(k, v)
        \/ Populate
        \/ \E k \in CollideKeys : Remove(k)
        \/ TableDestroy

SpecLife == InitLife /\ [][NextLife]_vars

(***************************************************************************)
(* A client with string keys.  The table is created with the key size of   *)
(* a char pointer, stdx_hash_str and stdx_str_eq; the client hands every   *)
(* call the address of a char pointer variable, so the key of the call is  *)
(* the address of the string that the variable holds.                      *)
(***************************************************************************)
\* the strings of the client: the addresses 0x1234, 0x1244, 0x1300 and
\* 0x1400 and what is stored there
StringAt ==
  (4660 :> "answer") @@ (4676 :> "answer") @@
  (4864 :> "first") @@ (5120 :> "second")

StrPtrs == DOMAIN StringAt

InitStr ==
  /\ LET c == x_hashtable_create_ex(KeySize, ValueSize, "stdx_hash_str",
                                    "stdx_str_eq", NullPtr, "none")
         r == Replay(c.calls, 1, Len(c.calls), NullPtr,
                     [arena |-> NullPtr, heap |-> EmptyHeap])
     IN  /\ table = c.table
         /\ heap = r.mem.heap
  /\ arena = NullPtr
  /\ trace = <<>>
  /\ iter = [bound |-> FALSE, index |-> 0]
  /\ fill = 1
  /\ nops = 0
  /\ model = [k \in StrPtrs |-> NULL]
  /\ yielded = <<>>
  /\ last = Call("create", NULL, TRUE, FALSE)
  /\ probe = NoProbe
  /\ NoPool

NextStr ==
  \/ \E p \in StrPtrs, v \in Values : Set(p, v)
  \/ \E p \in StrPtrs : Remove(p)

SpecStr == InitStr /\ [][NextStr]_vars

(***************************************************************************)
(* A client of the arena alone: x_arena_create once, then x_arena_alloc    *)
(* and x_arena_reset in any order.  Any malloc of the arena may fail.      *)
(***************************************************************************)
\* chunk sizes and request sizes of the tests of the arena, and the small
\* request that fills a chunk of 64 bytes after a request of 60
ClientChunkSizes == {64, 128}

AllocSizes == {0, 4, 32, 60, 512}

ArenaCall(op, size, ptr, oom) ==
  [op |-> op, size |-> size, ptr |-> ptr, oom |-> oom]

\* no arena and no table yet
InitArenaClient ==
  /\ table = NullPtr
  /\ arena = NullPtr
  /\ iter = [bound |-> FALSE, index |-> 0]
  /\ fill = 1
  /\ nops = 0
  /\ model = [k \in Keys |-> NULL]
  /\ yielded = <<>>
  /\ last = ArenaCall("none", NULL, NullPtr, "none")
  /\ heap = EmptyHeap
  /\ trace = <<>>
  /\ probe = NoProbe
  /\ NoPool

\* arena = x_arena_create(chunk_size)
ArenaCreate(chunk_size, oom) ==
  /\ trace = <<>>
  /\ \E r \in {x_arena_create(chunk_size, oom)} :
       /\ arena' = r.arena
       /\ heap' = SysReplay(heap, r.sys, 1)
       /\ trace' = Append(trace, ArenaCall("create", chunk_size, r.arena, oom))
       /\ last' = ArenaCall("arena_create", chunk_size, r.arena, oom)
  /\ UNCHANGED <<table, iter, fill, nops, model, yielded, probe, poolVars>>

\* ptr = x_arena_alloc(arena, size); arena is null when the create failed
ArenaAlloc(size, oom) ==
  /\ trace # <<>>
  /\ Budget
  /\ \E r \in {x_arena_alloc(arena, size, oom)} :
       /\ arena' = r.arena
       /\ heap' = SysReplay(heap, r.sys, 1)
       /\ trace' = Append(trace, ArenaCall("alloc", size, r.ptr, "none"))
       /\ last' = ArenaCall("arena_alloc", size, r.ptr, oom)
  /\ UNCHANGED <<table, iter, fill, model, yielded, probe, poolVars>>

\* x_arena_reset(arena)
ClientReset ==
  /\ trace # <<>>
  /\ Budget
  /\ arena' = x_arena_reset(arena)
  /\ trace' = Append(trace, ArenaCall("reset", NULL, NullPtr, "none"))
  /\ last' = ArenaCall("arena_reset", NULL, NullPtr, "none")
  /\ UNCHANGED <<table, iter, fill, model, yielded, heap, probe, poolVars>>

NextArenaClient ==
  \/ \E chunk_size \in ClientChunkSizes, oom \in OomOfArena :
       ArenaCreate(chunk_size, oom)
  \/ \E size \in AllocSizes, oom \in OomOfChunk : ArenaAlloc(size, oom)
  \/ ClientReset

SpecArenaClient == InitArenaClient /\ [][NextArenaClient]_vars

(***************************************************************************)
(* The thread pool (stdx_thread.h).  The pool record holds the fields of   *)
(* XThreadPool; the queue is the linked list from head along the next      *)
(* fields of the tasks, which are kept in the field next.  The mutex is    *)
(* "free", "held" or "destroyed"; waiting is the set of workers that are   *)
(* blocked in x_thread_condvar_wait.  freed tells that free(pool) has been *)
(* called.  A task is a number, NULL is the null task pointer.             *)
(***************************************************************************)
\* the largest num_threads the pool is created with
MaxThreads == 2
\* number of tasks the producer enqueues, one call after the other
NumTasks == 2

Tasks == 1..NumTasks

\* 0xDEADBEEF, and the value destroy overwrites it with
THREADPOOL_MAGIC == "0xDEADBEEF"

NoMagic == "0"

threadpool_create(num_threads) ==
  IF num_threads <= 0
    THEN NullPtr
    ELSE [magic |-> THREADPOOL_MAGIC,
          num_threads |-> num_threads,
          head |-> NULL,
          tail |-> NULL,
          next |-> [t \in Tasks |-> NULL],
          lock |-> "free",
          waiting |-> {},
          stop |-> FALSE,
          freed |-> FALSE]

\* x_thread_mutex_lock returns once the mutex is free
mutex_is_free(p) == p.lock = "free"

\* x_thread_mutex_unlock; a destroyed mutex stays what it is
mutex_unlock(p) ==
  [p EXCEPT !.lock = IF @ = "held" THEN "free" ELSE @]

\* variant: the task is put in front of the list
queue_push_front(p, task) ==
  IF p.tail # NULL
    THEN [p EXCEPT !.next[task] = p.head, !.head = task]
    ELSE [p EXCEPT !.head = task, !.tail = task, !.next[task] = NULL]

\* threadpool_enqueue links the task behind the tail
queue_append(p, task) ==
  IF p.tail # NULL
    THEN [p EXCEPT !.next[p.tail] = task, !.tail = task, !.next[task] = NULL]
    ELSE [p EXCEPT !.head = task, !.tail = task, !.next[task] = NULL]

\* thread_main unlinks the task it has read from head
queue_pop(p, task) ==
  LET head == p.next[task]
  IN  [p EXCEPT !.head = head,
                !.tail = IF head = NULL THEN NULL ELSE @]

\* the condition of the inner while loop of thread_main
worker_waits(p) == p.head = NULL /\ ~p.stop

\* variant: a worker leaves as soon as stop is set
worker_exits_on_stop(p) == p.stop

\* the condition under which thread_main breaks out of its loop
worker_exits(p) == p.stop /\ p.head = NULL

\* the tasks of the list that starts at head
RECURSIVE ListFrom(_, _)
ListFrom(p, head) ==
  IF head = NULL THEN <<>> ELSE <<head>> \o ListFrom(p, p.next[head])

\* what a read of pool->magic can give: the field, or after free(pool)
\* whatever the memory holds by then
MagicRead(p) == IF p.freed THEN {THREADPOOL_MAGIC, NoMagic} ELSE {p.magic}

\* what can become of a thread that locks a mutex that was destroyed and
\* freed: it does not come back, or it goes on as if it had the mutex
DeadLockOutcomes == {"stuck", "proceed"}

\* the next call of the producer after task
NextCall(task) ==
  IF task < NumTasks
    THEN [pc |-> "check", task |-> task + 1]
    ELSE [pc |-> "done", task |-> NULL]

\* pool = threadpool_create(num_threads): the workers are at the top of
\* thread_main, no call of enqueue or destroy has begun
InitPool ==
  /\ \E num_threads \in 1..MaxThreads :
       /\ pool = threadpool_create(num_threads)
       /\ workers = [w \in 1..num_threads |-> [pc |-> "lock", task |-> NULL]]
  /\ producer = [pc |-> "check", task |-> 1]
  /\ destroyer = [pc |-> "call", i |-> 0]
  /\ hist = [appended |-> <<>>, taken |-> <<>>, ran |-> <<>>,
             ret |-> [t \in Tasks |-> "pending"],
             before |-> {}, late |-> {}, dropped |-> {}, after_free |-> FALSE]
  /\ table = NullPtr
  /\ arena = NullPtr
  /\ iter = [bound |-> FALSE, index |-> 0]
  /\ fill = 1
  /\ nops = 0
  /\ model = [k \in Keys |-> NULL]
  /\ yielded = <<>>
  /\ last = Call("none", NULL, FALSE, FALSE)
  /\ heap = EmptyHeap
  /\ trace = <<>>
  /\ probe = NoProbe

\* thread_main: x_thread_mutex_lock(pool->lock), also on the way out of
\* x_thread_condvar_wait
WorkerLock(w) ==
  /\ w \in DOMAIN workers
  /\ workers[w].pc = "lock"
  /\ mutex_is_free(pool)
  /\ pool' = [pool EXCEPT !.lock = "held"]
  /\ workers' = [workers EXCEPT ![w].pc = "locked"]
  /\ UNCHANGED <<tableVars, probe, producer, destroyer, hist>>

\* thread_main with the mutex: wait, leave, or read the head of the list
WorkerCheck(w) ==
  /\ w \in DOMAIN workers
  /\ workers[w].pc = "locked"
  /\ IF worker_waits(pool)
       THEN /\ pool' = [mutex_unlock(pool) EXCEPT !.waiting = @ \cup {w}]
            /\ workers' = [workers EXCEPT ![w].pc = "waiting"]
       ELSE IF worker_exits(pool)
              THEN /\ pool' = mutex_unlock(pool)
                   /\ workers' = [workers EXCEPT ![w].pc = "done"]
              ELSE /\ pool' = pool
                   /\ workers' = [workers EXCEPT ![w].pc = "pop",
                                                 ![w].task = pool.head]
  /\ UNCHANGED <<tableVars, probe, producer, destroyer, hist>>

\* thread_main: unlink the task, if there is one, and unlock
WorkerPop(w) ==
  /\ w \in DOMAIN workers
  /\ workers[w].pc = "pop"
  /\ IF workers[w].task # NULL
       THEN /\ pool' = mutex_unlock(queue_pop(pool, workers[w].task))
            /\ workers' = [workers EXCEPT ![w].pc = "run"]
            /\ hist' = [hist EXCEPT !.taken =
                          Append(@, [task |-> workers[w].task, worker |-> w])]
       ELSE /\ pool' = mutex_unlock(pool)
            /\ workers' = [workers EXCEPT ![w].pc = "lock"]
            /\ hist' = hist
  /\ UNCHANGED <<tableVars, probe, producer, destroyer>>

\* thread_main: task->fn(task->arg); free(task)
WorkerRun(w) ==
  /\ w \in DOMAIN workers
  /\ workers[w].pc = "run"
  /\ hist' = [hist EXCEPT !.ran =
                Append(@, [task |-> workers[w].task, worker |-> w])]
  /\ workers' = [workers EXCEPT ![w] = [pc |-> "lock", task |-> NULL]]
  /\ UNCHANGED <<tableVars, probe, pool, producer, destroyer>>

\* threadpool_enqueue: the test of pool->magic, made without the mutex, and
\* the malloc of the task
ProducerCheck ==
  /\ producer.pc = "check"
  /\ \E magic \in MagicRead(pool) :
       IF magic # THREADPOOL_MAGIC
         THEN /\ producer' = NextCall(producer.task)
              /\ hist' = [hist EXCEPT
                            !.ret[producer.task] = "rejected",
                            !.late = IF pool.stop
                                       THEN @ \cup {producer.task} ELSE @,
                            !.after_free = @ \/ pool.freed]
         ELSE /\ producer' = [producer EXCEPT !.pc = "lock"]
              /\ hist' = [hist EXCEPT
                            !.late = IF pool.stop
                                       THEN @ \cup {producer.task} ELSE @,
                            !.after_free = @ \/ pool.freed]
  /\ UNCHANGED <<tableVars, probe, pool, workers, destroyer>>

\* threadpool_enqueue: x_thread_mutex_lock(pool->lock)
ProducerLock(outcome) ==
  /\ producer.pc = "lock"
  /\ IF pool.lock = "destroyed"
       THEN /\ producer' = [producer EXCEPT !.pc =
                              IF outcome = "stuck" THEN "stuck" ELSE "append"]
            /\ hist' = [hist EXCEPT !.after_free = TRUE]
            /\ pool' = pool
       ELSE /\ outcome = "proceed"
            /\ mutex_is_free(pool)
            /\ pool' = [pool EXCEPT !.lock = "held"]
            /\ producer' = [producer EXCEPT !.pc = "append"]
            /\ hist' = hist
  /\ UNCHANGED <<tableVars, probe, workers, destroyer>>

\* threadpool_enqueue with the mutex: link the task, signal, unlock, return 0
ProducerAppend ==
  /\ producer.pc = "append"
  /\ \E woken \in IF pool.waiting = {} THEN {{}}
                   ELSE {{w} : w \in pool.waiting} :
       /\ pool' = [mutex_unlock(queue_append(pool, producer.task))
                     EXCEPT !.waiting = @ \ woken]
       /\ workers' = [w \in DOMAIN workers |->
                        IF w \in woken
                          THEN [workers[w] EXCEPT !.pc = "lock"]
                          ELSE workers[w]]
  /\ hist' = [hist EXCEPT !.appended = Append(@, producer.task),
                          !.ret[producer.task] = "accepted",
                          !.after_free = @ \/ pool.freed]
  /\ producer' = NextCall(producer.task)
  /\ UNCHANGED <<tableVars, probe, destroyer>>

\* threadpool_destroy(pool) is called
DestroyCall ==
  /\ destroyer.pc = "call"
  /\ destroyer' = [destroyer EXCEPT !.pc = "lock"]
  /\ hist' = [hist EXCEPT !.before = {t \in Tasks : hist.ret[t] = "accepted"}]
  /\ UNCHANGED <<tableVars, probe, pool, workers, producer>>

\* threadpool_destroy: x_thread_mutex_lock(pool->lock)
DestroyLock ==
  /\ destroyer.pc = "lock"
  /\ mutex_is_free(pool)
  /\ pool' = [pool EXCEPT !.lock = "held"]
  /\ destroyer' = [destroyer EXCEPT !.pc = "stop"]
  /\ UNCHANGED <<tableVars, probe, workers, producer, hist>>

\* threadpool_destroy with the mutex: stop, magic, broadcast, unlock
DestroyStop ==
  /\ destroyer.pc = "stop"
  /\ pool' = [mutex_unlock(pool) EXCEPT !.stop = TRUE, !.magic = NoMagic,
                                        !.waiting = {}]
  /\ workers' = [w \in DOMAIN workers |->
                   IF w \in pool.waiting
                     THEN [workers[w] EXCEPT !.pc = "lock"]
                     ELSE workers[w]]
  /\ destroyer' = [pc |-> "join", i |-> 1]
  /\ UNCHANGED <<tableVars, probe, producer, hist>>

\* threadpool_destroy: x_thread_join(pool->threads[i]) returns
DestroyJoin ==
  /\ destroyer.pc = "join"
  /\ workers[destroyer.i].pc = "done"
  /\ destroyer' = IF destroyer.i < pool.num_threads
                    THEN [destroyer EXCEPT !.i = @ + 1]
                    ELSE [destroyer EXCEPT !.pc = "teardown"]
  /\ UNCHANGED <<tableVars, probe, pool, workers, producer, hist>>

\* threadpool_destroy: the mutex and the condition variable are destroyed
\* and freed
DestroyTeardown ==
  /\ destroyer.pc = "teardown"
  /\ pool' = [pool EXCEPT !.lock = "destroyed"]
  /\ hist' = [hist EXCEPT !.after_free = @ \/ pool.lock = "held"]
  /\ destroyer' = [destroyer EXCEPT !.pc = "cleanup"]
  /\ UNCHANGED <<tableVars, probe, workers, producer>>

\* threadpool_destroy: the tasks still in the list are freed, then the pool
DestroyCleanup ==
  /\ destroyer.pc = "cleanup"
  /\ LET left == ListFrom(pool, pool.head)
     IN  hist' = [hist EXCEPT !.dropped =
                    @ \cup {left[j] : j \in 1..Len(left)}]
  /\ pool' = [pool EXCEPT !.head = NULL, !.freed = TRUE]
  /\ destroyer' = [destroyer EXCEPT !.pc = "returned"]
  /\ UNCHANGED <<tableVars, probe, workers, producer>>

Worker(w) ==
  \/ WorkerLock(w)
  \/ WorkerCheck(w)
  \/ WorkerPop(w)
  \/ WorkerRun(w)

Producer ==
  \/ ProducerCheck
  \/ \E outcome \in DeadLockOutcomes : ProducerLock(outcome)
  \/ ProducerAppend

Destroyer ==
  \/ DestroyCall
  \/ DestroyLock
  \/ DestroyStop
  \/ DestroyJoin
  \/ DestroyTeardown
  \/ DestroyCleanup

NextPool ==
  \/ \E w \in 1..MaxThreads : WorkerLock(w)
  \/ \E w \in 1..MaxThreads : WorkerCheck(w)
  \/ \E w \in 1..MaxThreads : WorkerPop(w)
  \/ \E w \in 1..MaxThreads : WorkerRun(w)
  \/ ProducerCheck
  \/ \E outcome \in DeadLockOutcomes : ProducerLock(outcome)
  \/ ProducerAppend
  \/ DestroyCall
  \/ DestroyLock
  \/ DestroyStop
  \/ DestroyJoin
  \/ DestroyTeardown
  \/ DestroyCleanup

SpecPool == InitPool /\ [][NextPool]_vars

\* every thread that can take a step is scheduled in the end
SpecPoolFair ==
  /\ InitPool
  /\ [][NextPool]_vars
  /\ \A w \in 1..MaxThreads : WF_vars(Worker(w))
  /\ WF_vars(Producer)
  /\ WF_vars(Destroyer)

(***************************************************************************)
(* Auxiliary definitions of the properties                                 *)
(***************************************************************************)
Slots(t) == 0..(t.capacity - 1)

OccupiedSlots(t) == {i \in Slots(t) : t.entries[i].occupied}

\* the keys whose latest mutating call was a set
LiveKeys == {k \in Keys : model[k] # NULL}

\* the slots a forward, wrapping scan visits from slot from up to slot to
ScanRange(t, from, to) ==
  IF from <= to
    THEN from..to
    ELSE (from..(t.capacity - 1)) \cup (0..to)

RECURSIVE IsDoublingOfInitial(_)
IsDoublingOfInitial(c) ==
  \/ c = INITIAL_CAPACITY
  \/ /\ c > INITIAL_CAPACITY
     /\ c % 2 = 0
     /\ IsDoublingOfInitial(c \div 2)

(***************************************************************************)
(* Properties                                                              *)
(***************************************************************************)

\* C1: after any sequence of set calls from a new table (rehashes included),
\* get(k) of every key that was set returns found with the value of the most
\* recent set(k, .), and get of a key never set returns not-found.
C1_GetReturnsLatestSet ==
  \A k \in Keys :
    LET g == x_hashtable_get(table, k)
    IN  IF model[k] # NULL
          THEN g.ret /\ g.out_value = model[k]
          ELSE ~g.ret

\* two rehashes have happened and every colliding key was set to the last
\* value and is read back
C1_Witness ==
  /\ table.capacity = 4 * INITIAL_CAPACITY
  /\ nops > NumCollide
  /\ \A k \in CollideKeys :
       /\ model[k] = MaxValue
       /\ x_hashtable_get(table, k).out_value = MaxValue

\* C2: after any sequence of set and remove calls, count equals the number of
\* distinct keys whose most recent mutating call was a set.
C2_CountIsLiveKeys == x_hashtable_count(table) = Cardinality(LiveKeys)

\* C3: in every reachable table state and for every key k, set(k, v) followed
\* by remove(k) makes remove return true, has(k) false right afterwards, and
\* count one less than right after the set.
C3_SetRemoveRoundTrip ==
  \A k \in Keys, v \in Values :
    LET s == x_hashtable_set(table, k, v)
        r == x_hashtable_remove(s.table, k)
    IN  /\ r.ret
        /\ ~x_hashtable_has(r.table, k)
        /\ x_hashtable_count(r.table) = x_hashtable_count(s.table) - 1

\* a remove(k) that directly followed a set(k, .) returned true on a table
\* that also holds other keys and has been rehashed, and k is gone
C3_Witness ==
  /\ last.op = "remove"
  /\ last.after_set
  /\ last.ret
  /\ ~x_hashtable_has(table, last.key)
  /\ table.capacity > INITIAL_CAPACITY
  /\ table.count > 0

\* C4: a set that triggers a rehash leaves get (found flag and value) of every
\* other key as it was before the call, and changes count only by its own
\* insertion.
C4_RehashTransparent ==
  [][(last'.op = "set" /\ table'.capacity # table.capacity) =>
       /\ \A k \in Keys \ {last'.key} :
            x_hashtable_get(table', k) = x_hashtable_get(table, k)
       /\ table'.count = table.count
                           + (IF x_hashtable_has(table, last'.key) THEN 0 ELSE 1)
    ]_vars

\* the table holds exactly three distinct keys of one bucket b, in the slots
\* b, b+1, b+2 with k2 in the middle, and has never been rehashed
HazardSetup(t, k2) ==
  LET b == hash_fn(k2) % t.capacity
  IN  /\ t.capacity = INITIAL_CAPACITY
      /\ t.count = 3
      /\ b + 2 < t.capacity
      /\ OccupiedSlots(t) = {b, b + 1, b + 2}
      /\ t.entries[b + 1].key = k2
      /\ t.entries[b].key # k2
      /\ t.entries[b + 2].key # k2
      /\ t.entries[b].key # t.entries[b + 2].key
      /\ hash_fn(t.entries[b].key) % t.capacity = b
      /\ hash_fn(t.entries[b + 2].key) % t.capacity = b

\* C5: with three keys k1, k2, k3 of one initial bucket in consecutive probe
\* positions on a table without rehash, remove(k2) makes get(k3) and has(k3)
\* report not-found although the slot of k3 is still occupied and counted.
C5_HazardScenario ==
  [][(/\ last'.op = "remove"
      /\ HazardSetup(table, last'.key))
     => LET b == hash_fn(last'.key) % table.capacity
            k3 == table.entries[b + 2].key
        IN  /\ last'.ret
            /\ ~x_hashtable_get(table', k3).ret
            /\ ~x_hashtable_has(table', k3)
            /\ table'.entries[b + 2].occupied
            /\ table'.entries[b + 2].key = k3
            /\ x_hashtable_count(table') = 2
            /\ OccupiedSlots(table') = {b, b + 2}
    ]_vars

\* the state right after remove(k2) in the scenario: k1 in slot 0, slot 1
\* cleared, k3 still in slot 2 and its latest mutating call a set
C5_Witness ==
  /\ last.op = "remove"
  /\ last.ret
  /\ table.capacity = INITIAL_CAPACITY
  /\ table.count = 2
  /\ OccupiedSlots(table) = {0, 2}
  /\ \E k1, k3 \in CollideKeys :
       /\ k1 # k3
       /\ last.key \notin {k1, k3}
       /\ table.entries[0].key = k1
       /\ table.entries[2].key = k3
       /\ model[k3] # NULL
       /\ ~x_hashtable_has(table, k3)

\* C6: for every occupied slot s holding key k, all slots on the forward
\* wrapping scan from hash_fn(k) mod capacity up to s are occupied.
C6_ProbeReachable ==
  \A s \in OccupiedSlots(table) :
    \A i \in ScanRange(table, hash_fn(table.entries[s].key) % table.capacity, s) :
      table.entries[i].occupied

\* C7: after every completed operation count <= capacity and
\* 4*count <= 3*capacity, so at least one slot is unoccupied.
C7_NeverFull ==
  /\ table.count <= table.capacity
  /\ LoadDen * table.count <= LoadNum * table.capacity
  /\ \E i \in Slots(table) : ~table.entries[i].occupied

\* the load factor is exactly at the threshold on a table that has been
\* rehashed
C7_Witness ==
  /\ table.capacity > INITIAL_CAPACITY
  /\ LoadDen * table.count = LoadNum * table.capacity
  /\ last.op = "set"

\* C8: capacity is 16 at creation, changes only by doubling inside set, never
\* decreases, and always equals 16 * 2^n.
C8_CapacityOnlyDoubles ==
  /\ table.capacity = INITIAL_CAPACITY
  /\ [](IsDoublingOfInitial(table.capacity))
  /\ [][\/ table'.capacity = table.capacity
        \/ /\ table'.capacity = 2 * table.capacity
           /\ last'.op = "set"
      ]_vars

\* the capacity has doubled twice and a remove has been made since
C8_Witness ==
  /\ table.capacity = 4 * INITIAL_CAPACITY
  /\ last.op = "remove"
  /\ last.ret

\* what iter_next has yielded so far is the occupied slots below iter.index,
\* each once, in increasing slot order, with the key and value of the slot
YieldedIsPrefix ==
  /\ {yielded[j].slot : j \in 1..Len(yielded)}
       = {i \in OccupiedSlots(table) : i < iter.index}
  /\ \A j \in 1..(Len(yielded) - 1) : yielded[j].slot < yielded[j + 1].slot
  /\ \A j \in 1..Len(yielded) :
       /\ yielded[j].key = table.entries[yielded[j].slot].key
       /\ yielded[j].value = table.entries[yielded[j].slot].value

\* C9: on a table that is not changed during the iteration, iter_next returns
\* true exactly once per occupied slot (count times), in increasing slot order
\* with the slot's key and value, and returns false on the call that reaches
\* capacity without a slot and on every later call.
C9_IterationInSlotOrder ==
  /\ [](iter.bound =>
          /\ YieldedIsPrefix
          /\ Len(yielded) <= x_hashtable_count(table)
          /\ (last.op = "iter_next" /\ last.ret) =>
               /\ yielded # <<>>
               /\ yielded[Len(yielded)].slot = iter.index - 1
               /\ yielded[Len(yielded)].key = last.key
          /\ (last.op = "iter_next" /\ ~last.ret) =>
               /\ iter.index = table.capacity
               /\ Len(yielded) = x_hashtable_count(table)
               /\ Len(yielded) = Cardinality(OccupiedSlots(table)))
  /\ [][(iter.bound /\ iter.index = table.capacity /\ last'.op = "iter_next")
          => /\ ~last'.ret
             /\ iter'.index = table.capacity
             /\ yielded' = yielded
      ]_vars

\* an iteration over a rehashed table with a gap in a probe chain has come to
\* its end
C9_Witness ==
  /\ iter.bound
  /\ last.op = "iter_next"
  /\ ~last.ret
  /\ table.capacity > INITIAL_CAPACITY
  /\ Len(yielded) = table.count
  /\ Len(yielded) > (LoadNum * INITIAL_CAPACITY) \div LoadDen
  /\ ~C6_ProbeReachable

\* every chunk of the arena old is a chunk of new, at the same place counted
\* from the end of the chain, with the same capacity, no smaller used and no
\* more free() calls made on it; the arena struct is not freed
ChunksKept(old, new) ==
  LET n == Len(new.chunks) - Len(old.chunks)
  IN  /\ n >= 0
      /\ new.frees = old.frees
      /\ \A i \in 1..Len(old.chunks) :
           /\ new.chunks[i + n].capacity = old.chunks[i].capacity
           /\ new.chunks[i + n].used >= old.chunks[i].used
           /\ new.chunks[i + n].data_frees = old.chunks[i].data_frees
           /\ new.chunks[i + n].frees = old.chunks[i].frees

\* C10: for a table created over x_arena_allocator(arena), no table operation
\* (set with or without rehash, remove, destroy) decreases the used counter of
\* a chunk or frees a chunk; that is done only by x_arena_reset and
\* x_arena_destroy, and x_arena_destroy releases each chunk exactly once.
C10_ReleaseIsNoOpOnArena ==
  /\ [][~ChunksKept(arena, arena')
          => last'.op \in {"arena_reset", "arena_destroy"}]_vars
  /\ [](\A i \in 1..Len(arena.chunks) :
          IF last.op = "arena_destroy"
            THEN /\ arena.frees = 1
                 /\ arena.chunks[i].data_frees = 1
                 /\ arena.chunks[i].frees = 1
            ELSE /\ arena.frees = 0
                 /\ arena.chunks[i].data_frees = 0
                 /\ arena.chunks[i].frees = 0)

\* the arena was destroyed after the table in it was populated past a rehash
\* and the table had made the arena grow by a chunk
C10_Witness ==
  /\ last.op = "arena_destroy"
  /\ arena.frees = 1
  /\ Len(arena.chunks) >= 2
  /\ Cardinality(LiveKeys) > (LoadNum * INITIAL_CAPACITY) \div LoadDen
  /\ \E k \in CollideKeys : model[k] = NULL
  /\ nops > 0

(***************************************************************************)
(* The arena under a client: SpecArenaClient                               *)
(***************************************************************************)
\* the positions of the chain whose chunk has room for a request
Fitting(chunks, size) ==
  {i \in 1..Len(chunks) : chunks[i].capacity - chunks[i].used >= size}

\* the position nearest to the head among a non-empty set of positions
Nearest(positions) == CHOOSE i \in positions : \A j \in positions : i <= j

\* the step is a call x_arena_alloc(arena, size) on an arena with size > 0
AllocStep ==
  /\ last'.op = "arena_alloc"
  /\ last'.size > 0
  /\ ~IsNull(arena)

\* the events of the trace since the last x_arena_reset that returned a block
SinceReset ==
  LET resets == {i \in 1..Len(trace) : trace[i].op = "reset"}
      from == IF resets = {} THEN 0
              ELSE CHOOSE i \in resets : \A j \in resets : j <= i
  IN  {i \in (from + 1)..Len(trace) :
         trace[i].op = "alloc" /\ ~IsNull(trace[i].ptr)}

\* the capacity of the chunk with a given number
CapacityOf(number) == arena.chunks[Len(arena.chunks) - number + 1].capacity

\* C11: in every state reachable by x_arena_create, x_arena_alloc and
\* x_arena_reset, every chunk of the arena has 0 <= used <= capacity.
C11_UsedWithinCapacity ==
  IsNull(arena) \/
    \A i \in 1..Len(arena.chunks) :
      /\ 0 <= arena.chunks[i].used
      /\ arena.chunks[i].used <= arena.chunks[i].capacity

\* a chain of two chunks after a reset, one of them filled to the last byte
C11_Witness ==
  /\ ~IsNull(arena)
  /\ Len(arena.chunks) >= 2
  /\ \E i \in 1..Len(trace) : trace[i].op = "reset"
  /\ \E i \in 1..Len(arena.chunks) :
       arena.chunks[i].used = arena.chunks[i].capacity

\* C12: x_arena_alloc with size > 0 serves the request from the first chunk
\* from the head with capacity - used >= size: it returns data + used of
\* that chunk, adds size to the used of that chunk only, and creates no
\* chunk.
C12_FirstFitFromHead ==
  [][(AllocStep /\ Fitting(arena.chunks, last'.size) # {}) =>
       LET i == Nearest(Fitting(arena.chunks, last'.size))
       IN  /\ last'.ptr = [chunk |-> Len(arena.chunks) - i + 1,
                           off |-> arena.chunks[i].used]
           /\ arena' = [arena EXCEPT !.chunks[i].used = @ + last'.size]
           /\ heap' = heap]_vars

\* a request served from an older chunk, behind blocks already handed out,
\* because the head has no room for it
C12_Witness ==
  /\ last.op = "arena_alloc"
  /\ ~IsNull(last.ptr)
  /\ ~IsNull(arena)
  /\ last.ptr.chunk < Len(arena.chunks)
  /\ last.ptr.off > 0
  /\ heap.live = {ArenaBlock} \cup
                  UNION {{ChunkBlock(n), DataBlock(n)} :
                           n \in 1..Len(arena.chunks)}

\* C13: when no chunk has room and the system allocations succeed,
\* x_arena_alloc creates exactly one chunk of capacity max(size,
\* chunk_size), puts it at the head of the chain with used = size, leaves
\* the other chunks and their order alone, and returns the base of the new
\* chunk.
C13_NewChunkAtHead ==
  [][(AllocStep /\ Fitting(arena.chunks, last'.size) = {}
        /\ last'.oom = "none") =>
       LET n == Len(arena.chunks) + 1
           cap == IF last'.size > arena.chunk_size
                    THEN last'.size ELSE arena.chunk_size
       IN  /\ Len(arena'.chunks) = n
           /\ arena'.chunks[1].capacity = cap
           /\ arena'.chunks[1].used = last'.size
           /\ \A i \in 1..Len(arena.chunks) :
                arena'.chunks[i + 1] = arena.chunks[i]
           /\ arena'.chunk_size = arena.chunk_size
           /\ last'.ptr = [chunk |-> n, off |-> 0]
           /\ heap'.live = heap.live \cup {ChunkBlock(n), DataBlock(n)}
           /\ ChunkBlock(n) \notin heap.live
           /\ DataBlock(n) \notin heap.live]_vars

\* a request larger than the chunk size got a chunk of its own at the head
\* of a chain of three
C13_Witness ==
  /\ last.op = "arena_alloc"
  /\ ~IsNull(arena)
  /\ last.size > arena.chunk_size
  /\ Len(arena.chunks) = 3
  /\ last.ptr = [chunk |-> 3, off |-> 0]
  /\ arena.chunks[1].capacity = last.size

\* the step is a call x_arena_alloc(arena, size) with size > 0 right after
\* a call x_arena_reset(arena)
AllocAfterReset ==
  /\ last.op = "arena_reset"
  /\ AllocStep

\* the first block of the arena
FirstBlock ==
  LET blocks == {i \in 1..Len(trace) :
                   trace[i].op = "alloc" /\ ~IsNull(trace[i].ptr)}
  IN  trace[CHOOSE i \in blocks : \A j \in blocks : i <= j].ptr

\* C14: x_arena_reset sets used to 0 in every chunk and changes nothing
\* else; an allocation right after it that fits a chunk creates no chunk and
\* returns the base of the first chunk of the chain that fits, which for an
\* arena of one chunk is the address of the first block of the arena.
C14_ResetReuses ==
  [][/\ (last'.op = "arena_reset" /\ ~IsNull(arena)) =>
          /\ Len(arena'.chunks) = Len(arena.chunks)
          /\ \A i \in 1..Len(arena.chunks) :
               arena'.chunks[i] = [arena.chunks[i] EXCEPT !.used = 0]
          /\ arena'.chunk_size = arena.chunk_size
          /\ arena'.frees = arena.frees
          /\ heap' = heap
     /\ (AllocAfterReset
           /\ \E i \in 1..Len(arena.chunks) :
                arena.chunks[i].capacity >= last'.size) =>
          LET i == Nearest({j \in 1..Len(arena.chunks) :
                             arena.chunks[j].capacity >= last'.size})
          IN  /\ Len(arena'.chunks) = Len(arena.chunks)
              /\ heap' = heap
              /\ last'.ptr = [chunk |-> Len(arena.chunks) - i + 1, off |-> 0]
              /\ (Len(arena.chunks) = 1 /\ \E j \in 1..Len(trace) :
                     trace[j].op = "alloc" /\ ~IsNull(trace[j].ptr)) =>
                    last'.ptr = FirstBlock]_vars

\* after a reset of a chain of three used chunks, a request too large for
\* the head got the base of the chunk behind it
C14_Witness ==
  /\ last.op = "arena_alloc"
  /\ Len(trace) >= 2
  /\ trace[Len(trace) - 1].op = "reset"
  /\ ~IsNull(arena)
  /\ Len(arena.chunks) = 3
  /\ last.size > arena.chunks[1].capacity
  /\ last.ptr = [chunk |-> 2, off |-> 0]

\* the same address for an arena of one chunk
C14_WitnessOneChunk ==
  /\ last.op = "arena_alloc"
  /\ Len(trace) >= 3
  /\ trace[Len(trace) - 1].op = "reset"
  /\ ~IsNull(arena)
  /\ Len(arena.chunks) = 1
  /\ ~IsNull(last.ptr)
  /\ last.ptr = FirstBlock

\* C15: the blocks returned since the last reset are pairwise disjoint as
\* ranges [ptr, ptr + size), and each lies inside the buffer of one chunk.
C15_BlocksDisjoint ==
  IsNull(arena) \/
    /\ \A i \in SinceReset :
         /\ trace[i].ptr.chunk \in 1..Len(arena.chunks)
         /\ 0 <= trace[i].ptr.off
         /\ trace[i].ptr.off + trace[i].size
              <= CapacityOf(trace[i].ptr.chunk)
    /\ \A i, j \in SinceReset :
         (i < j /\ trace[i].ptr.chunk = trace[j].ptr.chunk) =>
           \/ trace[i].ptr.off + trace[i].size <= trace[j].ptr.off
           \/ trace[j].ptr.off + trace[j].size <= trace[i].ptr.off

\* three blocks in two chunks since a reset that followed an allocation
C15_Witness ==
  /\ ~IsNull(arena)
  /\ Cardinality(SinceReset) >= 3
  /\ \E i \in 1..Len(trace) : trace[i].op = "reset"
  /\ \E i, j, k \in SinceReset :
       /\ i < j
       /\ trace[i].ptr.chunk = trace[j].ptr.chunk
       /\ trace[k].ptr.chunk # trace[i].ptr.chunk

\* C18: when a malloc fails while x_arena_alloc creates a chunk, it
\* returns null, the half-created chunk is released, and the chain and the
\* used and capacity of every chunk are unchanged; when either allocation of
\* x_arena_create fails, it returns null and nothing is left allocated.
C18_ArenaAllocationFailure ==
  [][/\ (AllocStep /\ Fitting(arena.chunks, last'.size) = {}
            /\ last'.oom # "none") =>
          /\ IsNull(last'.ptr)
          /\ arena' = arena
          /\ heap' = heap
     /\ (last'.op = "arena_create" /\ last'.oom # "none") =>
          /\ IsNull(last'.ptr)
          /\ IsNull(arena')
          /\ heap' = EmptyHeap]_vars

\* the buffer of a third chunk could not be allocated: the two chunks and
\* the arena are all that is allocated
C18_Witness ==
  /\ last.op = "arena_alloc"
  /\ last.oom = "data"
  /\ last.size > 0
  /\ IsNull(last.ptr)
  /\ ~IsNull(arena)
  /\ Len(arena.chunks) = 2
  /\ heap = [live |-> {ArenaBlock, ChunkBlock(1), DataBlock(1),
                       ChunkBlock(2), DataBlock(2)},
             lost |-> 0, bad |-> 0]

\* a create that failed on the buffer of its chunk
C18_WitnessCreate ==
  /\ last.op = "arena_create"
  /\ last.oom = "data"
  /\ IsNull(arena)
  /\ heap = EmptyHeap

(***************************************************************************)
(* The life of a table: SpecLife                                           *)
(***************************************************************************)
\* the blocks the fields of a table point to
BlocksOf(t) ==
  {TableBlock, EntriesBlock(t.capacity)}
    \cup UNION {{KeyBlock(t.capacity, i), ValueBlock(t.capacity, i)} :
                  i \in {j \in 0..(t.capacity - 1) : t.entries[j].occupied}}

\* C16: for a table on the default allocator, after any sequence of set and
\* remove, rehash included, x_hashtable_destroy has released every key
\* block, every value block, the slot array and the table struct exactly
\* once, and nothing else: no block is lost or released twice on the way, and
\* the allocator object is never handed to free.
C16_DestroyReleasesAll ==
  /\ heap.bad = 0
  /\ heap.lost = 0
  /\ Usable => heap.live = BlocksOf(table)
  /\ last.op = "destroy" => heap.live = {}

\* a table destroyed after the populate loop, which rehashes, and after all
\* the other calls the client makes
C16_Witness ==
  /\ last.op = "destroy"
  /\ fill = NumFill + 1
  /\ nops = MaxOps
  /\ \E k \in CollideKeys : model[k] # NULL
  /\ heap = EmptyHeap

\* C17: when either allocation of x_hashtable_create_ex fails, the call
\* returns null, writes through no null pointer and leaves nothing
\* allocated.
C17_CreateFailsCleanly ==
  (last.op = "create" /\ last.oom # "none") =>
    /\ ~last.ret
    /\ ~last.null_write
    /\ heap.live = {}

\* the failure of the first allocation is handled
C17_FirstAllocationChecked ==
  (last.op = "create" /\ last.oom = "table") =>
    /\ ~last.ret
    /\ ~last.null_write
    /\ heap.live = {}

(***************************************************************************)
(* Calls with a null handle or a zero size: SpecArena                      *)
(***************************************************************************)
\* C19: x_arena_alloc returns null and changes no chunk when size is 0 or
\* the arena is null; x_hashtable_count of a null table is 0;
\* x_hashtable_set and x_hashtable_get on a null table return false and
\* do nothing; x_hashtable_set on a table that is not null returns true.
C19_MisuseIsSafe ==
  /\ \A size \in AllocSizes, oom \in OomOfChunk :
       x_arena_alloc(NullPtr, size, oom)
         = [arena |-> NullPtr, ptr |-> NullPtr, sys |-> <<>>]
  /\ (~IsNull(arena) /\ arena.frees = 0) =>
       \A oom \in OomOfChunk :
         x_arena_alloc(arena, 0, oom)
           = [arena |-> arena, ptr |-> NullPtr, sys |-> <<>>]
  /\ x_hashtable_count(NullPtr) = 0
  /\ \A k \in CollideKeys :
       /\ x_hashtable_get(NullPtr, k) = [ret |-> FALSE, out_value |-> NULL]
       /\ \A v \in Values :
            x_hashtable_set(NullPtr, k, v)
              = [table |-> NullPtr, calls |-> <<>>, ret |-> FALSE]
  /\ last.op = "set" => last.ret

\* a set on a table that has grown, in an arena of several chunks whose head
\* has room left
C19_Witness ==
  /\ last.op = "set"
  /\ last.ret
  /\ ~IsNull(table)
  /\ table.capacity > INITIAL_CAPACITY
  /\ ~IsNull(arena)
  /\ arena.frees = 0
  /\ Len(arena.chunks) >= 2
  /\ arena.chunks[1].used < arena.chunks[1].capacity

(***************************************************************************)
(* String keys: SpecStr                                                    *)
(***************************************************************************)
\* C20: with stdx_hash_str and stdx_str_eq on keys that are pointers to
\* strings, two pointers to strings of equal contents address the same
\* entry, and pointers to strings of different contents address different
\* entries.
C20_StringKeysByContent ==
  \A p, q \in StrPtrs :
    LET a == probe_index(table, p)
        b == probe_index(table, q)
    IN  /\ StringAt[p] = StringAt[q] => a = b
        /\ (StringAt[p] # StringAt[q] /\ a.found /\ b.found) => a.idx # b.idx

\* what the callbacks do instead: they read the bytes of the pointer
C20_KeysByPointerBytes ==
  \A p, q \in StrPtrs :
    LET a == probe_index(table, p)
        b == probe_index(table, q)
    IN  CStr(Bytes(p)) = CStr(Bytes(q)) => a = b

(***************************************************************************)
(* More on set, remove and probing: Spec                                   *)
(***************************************************************************)
\* C21: a call of x_hashtable_set doubles the capacity once, before it
\* probes, if and only if it is entered with 4 * count >= 3 * capacity, also
\* when the key is already present; otherwise the capacity stays, and the
\* sets that the rehash makes never rehash again.
C21_DoublesOnceAtThreshold ==
  [][last'.op = "set" =>
       /\ table'.capacity = IF 4 * table.count >= 3 * table.capacity
                               THEN 2 * table.capacity
                               ELSE table.capacity
       /\ DOMAIN table'.entries = 0..(table'.capacity - 1)
       /\ \E i \in 0..(table'.capacity - 1) :
            /\ table'.entries[i].occupied
            /\ table'.entries[i].key = last'.key
            /\ \A j \in ScanRange(table', last'.key % table'.capacity, i) :
                 table'.entries[j].occupied]_vars

\* the thirteenth call on the table is a set that found twelve distinct keys
\* in sixteen slots, its own among them, and has doubled the capacity
C21_Witness ==
  /\ last.op = "set"
  /\ (fill - 1) + nops = 13
  /\ table.count = 12
  /\ table.capacity = 2 * INITIAL_CAPACITY

\* slot i is where a probe for key k ends with found: every slot on the scan
\* from the bucket of k up to i is occupied, and i is the first of them that
\* holds k
ProbeFinds(t, k, i) ==
  /\ \A j \in ScanRange(t, k % t.capacity, i) :
       /\ t.entries[j].occupied
       /\ t.entries[j].key = k => j = i
  /\ t.entries[i].key = k

\* C22: x_hashtable_remove(k) changes only the slot where probing finds k:
\* that slot becomes unoccupied and count drops by 1, every other slot and
\* the capacity stay as they are; when probing does not find k, it returns
\* false and the table is unchanged.
C22_RemoveClearsOneSlot ==
  [][last'.op = "remove" =>
       IF last'.ret
         THEN \E i \in Slots(table) :
                /\ ProbeFinds(table, last'.key, i)
                /\ table' = [table EXCEPT !.entries[i] = ZeroEntry,
                                           !.count = @ - 1]
         ELSE /\ table' = table
              /\ \A i \in Slots(table) : ~ProbeFinds(table, last'.key, i)]_vars

\* a colliding key was removed from the middle of its probe chain in a table
\* that has been rehashed, and the key behind it stayed in its slot
C22_Witness ==
  /\ last.op = "remove"
  /\ last.ret
  /\ table.capacity > INITIAL_CAPACITY
  /\ \E i \in Slots(table) :
       /\ ~table.entries[i].occupied
       /\ table.entries[(i + 1) % table.capacity].occupied
       /\ table.entries[(i + 1) % table.capacity].key \in CollideKeys
       /\ table.entries[(i + table.capacity - 1) % table.capacity].occupied

\* count is the number of occupied slots; an occupied slot has a key and a
\* value block, an unoccupied slot has null pointers
WellFormed(t) ==
  /\ t.count = Cardinality(OccupiedSlots(t))
  /\ \A i \in Slots(t) :
       IF t.entries[i].occupied
         THEN t.entries[i].key # NULL /\ t.entries[i].value # NULL
         ELSE t.entries[i].key = NULL /\ t.entries[i].value = NULL

\* the tables a rehash of t goes through: the doubled, zeroed slot array with
\* count 0, and the table after each iteration of the loop over the old slots
RehashStages(t) ==
  LET t0 == [t EXCEPT !.capacity = 2 * t.capacity,
                      !.entries = ZeroEntries(2 * t.capacity),
                      !.count = 0]
  IN  {rehash_loop(t0, t.entries, t.capacity, 0, j).table :
         j \in (-1)..(t.capacity - 1)}

C25_KeysUnique ==
  \A i, j \in OccupiedSlots(table) :
    eq_fn(table.entries[i].key, table.entries[j].key) => i = j

\* C27: in every reachable table state a probe that reports not-found
\* returns the index of an unoccupied slot, so x_hashtable_set never
\* overwrites a slot that is occupied by a different key.
C27_NotFoundIsFreeSlot ==
  /\ [](\A k \in Keys :
          LET p == probe_index(table, k)
          IN  ~p.found => ~table.entries[p.idx].occupied)
  /\ [][(last'.op = "set" /\ table'.capacity = table.capacity) =>
          \A i \in OccupiedSlots(table) :
            table.entries[i].key # last'.key =>
              table'.entries[i] = table.entries[i]]_vars

\* the probe for an absent colliding key passes occupied slots and ends at a
\* free one, in a table at the load threshold that has been rehashed
C27_Witness ==
  /\ table.capacity > INITIAL_CAPACITY
  /\ 4 * table.count >= 3 * table.capacity
  /\ \E k \in CollideKeys :
       LET p == probe_index(table, k)
       IN  /\ ~p.found
           /\ p.idx >= 2
           /\ ~table.entries[p.idx].occupied

(***************************************************************************)
(* Removed keys: SpecChurn                                                 *)
(***************************************************************************)
\* a remove of k has returned true and k has not been set since
RemovedSince(k) ==
  \E i \in 1..Len(trace) :
    /\ trace[i].op = "remove"
    /\ trace[i].key = k
    /\ trace[i].ret
    /\ \A j \in (i + 1)..Len(trace) :
         ~(trace[j].op = "set" /\ trace[j].key = k)

\* C26: once x_hashtable_remove(k) has returned true, has(k) and get(k)
\* report not-found until the next set(k, .), whatever is done with other
\* keys in between.
C26_NoResurrection ==
  \A k \in CollideKeys :
    RemovedSince(k) =>
      /\ ~x_hashtable_has(table, k)
      /\ ~x_hashtable_get(table, k).ret

(***************************************************************************)
(* Termination of the probe: SpecProbe                                     *)
(***************************************************************************)
\* C23: on every table, a table with every slot occupied and without the key
\* included, probe_index inspects at most capacity slots and returns.
C23_ProbeTerminates ==
  /\ [](probe.active => probe.inspected < table.capacity)
  /\ [](last.op = "probe" =>
          /\ last.inspected <= table.capacity
          /\ last = [op |-> "probe", key |-> last.key,
                     ret |-> probe_index(table, last.key).found,
                     after_set |-> FALSE,
                     idx |-> probe_index(table, last.key).idx,
                     inspected |-> last.inspected])
  /\ (probe.active ~> ~probe.active)

\* the probe for a key that is not in a table with every slot occupied has
\* inspected every slot once and returned not-found
C23_Witness ==
  /\ last.op = "probe"
  /\ ~last.ret
  /\ table.count = table.capacity
  /\ \A i \in Slots(table) : table.entries[i].occupied
  /\ last.inspected = table.capacity

(***************************************************************************)
(* The thread pool: SpecPool and SpecPoolFair                              *)
(***************************************************************************)
\* the tasks of a sequence of [task, worker] records
TasksOf(seq) == [i \in 1..Len(seq) |-> seq[i].task]

IsPrefixOf(s, t) ==
  /\ Len(s) <= Len(t)
  /\ \A i \in 1..Len(s) : s[i] = t[i]

\* how many times the task was executed
Runs(t) == Cardinality({i \in 1..Len(hist.ran) : hist.ran[i].task = t})

Accepted == {t \in Tasks : hist.ret[t] = "accepted"}

\* C28: the tasks are taken from the queue in the order threadpool_enqueue
\* appended them, no task is taken twice, and a pool with one worker executes
\* them in that order.
C28_FifoOrder ==
  /\ IsPrefixOf(TasksOf(hist.taken), hist.appended)
  /\ \A i, j \in 1..Len(hist.taken) :
       i # j => hist.taken[i].task # hist.taken[j].task
  /\ pool.num_threads = 1 => IsPrefixOf(TasksOf(hist.ran), hist.appended)

\* two workers have taken the two tasks in the order of their enqueue, one
\* each, and the task taken second was executed first
C28_Witness ==
  /\ pool.num_threads = 2
  /\ hist.appended = <<1, 2>>
  /\ TasksOf(hist.taken) = <<1, 2>>
  /\ hist.taken[1].worker # hist.taken[2].worker
  /\ TasksOf(hist.ran) = <<2, 1>>

\* a pool with one worker has executed the tasks in the order of their enqueue
C28_WitnessOneWorker ==
  /\ pool.num_threads = 1
  /\ hist.appended = <<1, 2>>
  /\ TasksOf(hist.ran) = <<1, 2>>

\* C29: under fair scheduling every task that threadpool_enqueue had accepted
\* when threadpool_destroy was called is executed, no task is executed twice,
\* and threadpool_destroy has not returned before all of them were executed.
C29_DrainOnShutdown ==
  /\ [](destroyer.pc = "returned" => \A t \in hist.before : Runs(t) = 1)
  /\ [](\A t \in Tasks : Runs(t) <= 1)
  /\ \A t \in Tasks : (t \in hist.before) ~> (Runs(t) = 1)

\* threadpool_destroy was called after both tasks were accepted and before
\* any of them was taken, and it has returned after both were executed
C29_Witness ==
  /\ destroyer.pc = "returned"
  /\ hist.before = Tasks
  /\ \A t \in Tasks : Runs(t) = 1
  /\ ~hist.after_free

\* stop is set while a task accepted before the call is still in the queue
C29_WitnessQueuedAtStop ==
  /\ pool.stop
  /\ pool.head # NULL
  /\ pool.head \in hist.before
  /\ destroyer.pc = "join"

\* C30: when threadpool_enqueue runs beside threadpool_destroy, every task
\* whose enqueue returned 0 has been executed when destroy has returned, an
\* enqueue that began after stop was set is rejected and appends nothing, no
\* accepted task is freed unexecuted, and nothing reads or writes the pool,
\* its mutex or its queue after they were freed.
C30_EnqueueDestroyRace ==
  /\ destroyer.pc = "returned" => \A t \in Accepted : Runs(t) = 1
  /\ \A t \in hist.late :
       /\ hist.ret[t] # "accepted"
       /\ \A i \in 1..Len(hist.appended) : hist.appended[i] # t
       /\ ~(producer.task = t /\ producer.pc \in {"lock", "append", "stuck"})
  /\ hist.dropped \cap Accepted = {}
  /\ ~hist.after_free

\* the parts of C30 apart: an accepted task is freed unexecuted by destroy
C30_NoAcceptedTaskDropped == hist.dropped \cap Accepted = {}

\* the parts of C30 apart: no access after the free
C30_NoUseAfterFree == ~hist.after_free

====
